---- MODULE Spec2Model ----
(***************************************************************************)
(* Auto-instrumentation of genai-telemetry: the instrumentor registry and  *)
(* lifecycle controller (instrumentation/auto.py), the base instrumentor   *)
(* and the wrap/unwrap utility (instrumentation/base.py), and the call     *)
(* wrappers of the five instrumentors.                                     *)
(***************************************************************************)
EXTENDS Integers, Sequences, FiniteSets, TLC

VARIABLES
    lib,                  \* environment: which target libraries and instrumentor modules can be imported
    INSTRUMENTORS,        \* auto._INSTRUMENTORS: registered names, in registration order
    active_instrumentors, \* auto._active_instrumentors: list of instrumentor instances
    methods,              \* the callable currently installed at every patch target
    original_methods,     \* per instrumentor class: _original_methods (key -> callable)
    last,                 \* the last lifecycle call: arguments, returned map, state before it
    sink,                 \* whether setup_telemetry has configured a telemetry sink
    call,                 \* the last invocation of a patch target: inputs, outcome, events
    callers,              \* concurrent callers of one wrapper: each one's frame
    threads,              \* concurrent auto_instrument calls: each one's frame
    instances             \* per instrumentor class: the instance a client constructed itself

vars == <<lib, INSTRUMENTORS, active_instrumentors, methods, original_methods, last,
          sink, call, callers, threads, instances>>

\* the frames of the concurrent callers and threads, and the instances held by
\* a client that uses the instrumentor classes directly
concurrent == <<callers, threads, instances>>

----------------------------------------------------------------------------
(* Bounds of the model.                                                    *)

\* at most this many of the five target libraries are importable in one run
MaxPresent == 3
\* longest frameworks / exclude list passed to a lifecycle call
MaxSel == 1
\* deepest nesting of wrappers a patch target may reach (patch failures re-wrap)
MaxDepth == 2
\* callers that invoke one wrapper at the same time
MaxCallers == 2
\* threads that call auto_instrument at the same time
MaxThreads == 2

\* the number of documents in a returned collection
MaxDocs == 2

----------------------------------------------------------------------------
(* Names.                                                                  *)

\* registration order of _register_instrumentors
Registry == <<"openai", "anthropic", "langchain", "llamaindex", "google">>

Variants == {Registry[i] : i \in 1..Len(Registry)}

\* the `name` property of the instrumentor class registered under v
InstName(v) ==
    CASE v = "openai"     -> "OpenAI"
      [] v = "anthropic"  -> "Anthropic"
      [] v = "langchain"  -> "LangChain"
      [] v = "llamaindex" -> "LlamaIndex"
      [] v = "google"     -> "Google"

\* names a caller may pass in frameworks/exclude: registered keys, a
\* mixed-case spelling, and a documented but unregistered framework (the
\* remaining registered keys are reached through frameworks=None)
SelNames == {"openai", "anthropic", "langchain", "OpenAI", "crewai"}

\* str.lower() on the names of the model
Lower(n) ==
    CASE n = "OpenAI"     -> "openai"
      [] n = "Anthropic"  -> "anthropic"
      [] n = "LangChain"  -> "langchain"
      [] n = "LlamaIndex" -> "llamaindex"
      [] n = "Google"     -> "google"
      [] OTHER            -> n

LowerAll(S) == {Lower(n) : n \in S}

----------------------------------------------------------------------------
(* Patch targets: the (scope, method) pairs each _instrument wraps, in the *)
(* order it wraps them, named by the key wrap_method computes.             *)

OpenAITargets ==
    << "openai.Completions.create", "openai.AsyncCompletions.create",
       "openai.Embeddings.create", "openai.AsyncEmbeddings.create" >>

AnthropicTargets ==
    << "anthropic.Messages.create", "anthropic.AsyncMessages.create" >>

LangChainTargets ==
    << "langchain.BaseChatModel.invoke", "langchain.BaseChatModel.ainvoke",
       "langchain.BaseLLM.invoke", "langchain.BaseLLM.ainvoke",
       "langchain.BaseRetriever.invoke",
       "langchain.Embeddings.embed_documents", "langchain.Embeddings.embed_query",
       "langchain.BaseTool.invoke", "langchain.RunnableSequence.invoke",
       "langchain.AgentExecutor.invoke" >>

LlamaIndexTargets ==
    << "llamaindex.BaseQueryEngine.query", "llamaindex.BaseQueryEngine.aquery",
       "llamaindex.BaseRetriever.retrieve",
       "llamaindex.LLM.complete", "llamaindex.LLM.chat",
       "llamaindex.BaseEmbedding.get_text_embedding",
       "llamaindex.BaseEmbedding.get_query_embedding" >>

GoogleTargets ==
    << "google.GenerativeModel.generate_content",
       "google.GenerativeModel.generate_content_async",
       "genai.embed_content" >>

Targets(v) ==
    CASE v = "openai"     -> OpenAITargets
      [] v = "anthropic"  -> AnthropicTargets
      [] v = "langchain"  -> LangChainTargets
      [] v = "llamaindex" -> LlamaIndexTargets
      [] v = "google"     -> GoogleTargets

TargetSet(v) == {Targets(v)[i] : i \in 1..Len(Targets(v))}

AllTargets == UNION {TargetSet(v) : v \in Variants}

----------------------------------------------------------------------------
(* Callables.  The callable at a patch target is the true original or a    *)
(* wrapper closed over the callable it replaced; it is represented by the  *)
(* number of wrappers around the true original.                            *)

Original == 0

\* wrapper_func(original): a new callable closed over `original`
wrapper_func(original) == original + 1

\* an optional list argument: None, or the set of its elements
None == [given |-> FALSE, names |-> {}]
Some(S) == [given |-> TRUE, names |-> S]

\* no injected failure
NoFault == [v |-> "none", at |-> 0]

EmptyMap == [n \in {} |-> TRUE]

----------------------------------------------------------------------------
(* instrumentation/base.py                                                 *)

\* the variant whose _instrument patches `key`
VariantOf(key) == CHOOSE v \in Variants : key \in TargetSet(v)

\* hasattr(obj, method_name) for the scope of `key`, in the library environment L
hasattr(L, key) == L[VariantOf(key)] = "present"

\* safe_import(module) lets the error through: it catches ImportError only, and
\* importing the library of variant v raises another error
ProbeRaises(L, v) == L[v] = "broken"

\* a capability probe that reports every library as importable
check_installed_always(L, v) == TRUE

\* safe_import(module) is not None, for the library of variant v: the library
\* is importable, with the classes and methods the instrumentor expects
\* ("present") or without them ("drifted")
check_installed(L, v) == L[v] \in {"present", "drifted"}

\* a wrap_method that installs the wrapper without recording the original
wrap_method_nostore(L, key, W) ==
    IF ~hasattr(L, key)
    THEN [ok |-> FALSE, methods |-> W.methods, store |-> W.store]
    ELSE [ok      |-> TRUE,
          methods |-> [W.methods EXCEPT ![key] = wrapper_func(W.methods[key])],
          store   |-> W.store]

\* a wrap_method that leaves a key alone that already has an entry in the store
wrap_method_checked(L, key, W) ==
    IF ~hasattr(L, key)
    THEN [ok |-> FALSE, methods |-> W.methods, store |-> W.store]
    ELSE IF key \in DOMAIN W.store
    THEN [ok |-> TRUE, methods |-> W.methods, store |-> W.store]
    ELSE [ok      |-> TRUE,
          methods |-> [W.methods EXCEPT ![key] = wrapper_func(W.methods[key])],
          store   |-> (key :> W.methods[key]) @@ W.store]

\* a wrap_method that records the wrapper it installed instead of the callable
\* it captured, and reports success for a scope that lacks the method
wrap_method_storewrapped(L, key, W) ==
    [ok      |-> TRUE,
     methods |-> IF hasattr(L, key)
                 THEN [W.methods EXCEPT ![key] = wrapper_func(W.methods[key])]
                 ELSE W.methods,
     store   |-> IF hasattr(L, key)
                 THEN (key :> wrapper_func(W.methods[key])) @@ W.store
                 ELSE W.store]

\* W = [methods, store]: the installed callables and one class's _original_methods.
\* wrap_method(obj, method_name, wrapper_func, original_store)
wrap_method(L, key, W) ==
    IF ~hasattr(L, key)
    THEN [ok |-> FALSE, methods |-> W.methods, store |-> W.store]
    ELSE LET original == W.methods[key]
         IN  [ok      |-> TRUE,
              methods |-> [W.methods EXCEPT ![key] = wrapper_func(original)],
              store   |-> (key :> original) @@ W.store]

\* an unwrap_method that puts the callable back and keeps the entry
unwrap_method_keepentry(key, W) ==
    IF key \in DOMAIN W.store
    THEN [ok      |-> TRUE,
          methods |-> [W.methods EXCEPT ![key] = W.store[key]],
          store   |-> W.store]
    ELSE [ok |-> FALSE, methods |-> W.methods, store |-> W.store]

\* an unwrap_method that forgets the entry without putting the callable back
unwrap_method_norestore(key, W) ==
    IF key \in DOMAIN W.store
    THEN [ok      |-> TRUE,
          methods |-> W.methods,
          store   |-> [k \in (DOMAIN W.store) \ {key} |-> W.store[k]]]
    ELSE [ok |-> FALSE, methods |-> W.methods, store |-> W.store]

\* unwrap_method(obj, method_name, original_store)
unwrap_method(key, W) ==
    IF key \in DOMAIN W.store
    THEN [ok      |-> TRUE,
          methods |-> [W.methods EXCEPT ![key] = W.store[key]],
          store   |-> [k \in (DOMAIN W.store) \ {key} |-> W.store[k]]]
    ELSE [ok |-> FALSE, methods |-> W.methods, store |-> W.store]

\* the patch step before which the injected failure of `fault` raises in variant
\* v's _instrument / _uninstrument; -1 when that run completes
FailAt(fault, v) == IF fault.v = v THEN fault.at ELSE -1

\* _instrument of variant v from its i-th patch on: wrap_method on each target in
\* turn; raised = an exception left _instrument after `failAt` patches
RECURSIVE ApplyPatches(_, _, _, _, _)
ApplyPatches(L, v, i, W, failAt) ==
    IF failAt = i - 1
    THEN [raised |-> TRUE, methods |-> W.methods, store |-> W.store]
    ELSE IF i > Len(Targets(v))
    THEN [raised |-> FALSE, methods |-> W.methods, store |-> W.store]
    ELSE LET w == wrap_method(L, Targets(v)[i], W)
         IN  ApplyPatches(L, v, i + 1, [methods |-> w.methods, store |-> w.store], failAt)

\* _uninstrument of variant v from its i-th target on: unwrap_method on each target
RECURSIVE RevertPatches(_, _, _, _)
RevertPatches(v, i, W, failAt) ==
    IF failAt = i - 1
    THEN [raised |-> TRUE, methods |-> W.methods, store |-> W.store]
    ELSE IF i > Len(Targets(v))
    THEN [raised |-> FALSE, methods |-> W.methods, store |-> W.store]
    ELSE LET w == unwrap_method(Targets(v)[i], W)
         IN  RevertPatches(v, i + 1, [methods |-> w.methods, store |-> w.store], failAt)

\* a fresh instance of the instrumentor class registered under v
NewInstrumentor(v) == [cls |-> v, is_instrumented |-> FALSE]

\* an instrument() that applies the patches again on an instrumented instance
\* and probes no library
BaseInstrument_reapply(L, inst, W, fault) ==
    LET r == ApplyPatches(L, inst.cls, 1, W, FailAt(fault, inst.cls))
    IN  [ok |-> ~r.raised, raised |-> FALSE,
         inst |-> [inst EXCEPT !.is_instrumented = inst.is_instrumented \/ ~r.raised],
         methods |-> r.methods, store |-> r.store]

\* an instrument() that reports success although _instrument raised
BaseInstrument_swallow(L, inst, W, fault) ==
    IF inst.is_instrumented \/ ~check_installed(L, inst.cls)
    THEN [ok |-> inst.is_instrumented, raised |-> FALSE, inst |-> inst,
          methods |-> W.methods, store |-> W.store]
    ELSE LET r == ApplyPatches(L, inst.cls, 1, W, FailAt(fault, inst.cls))
         IN  [ok |-> TRUE, raised |-> FALSE,
              inst |-> [inst EXCEPT !.is_instrumented = TRUE],
              methods |-> r.methods, store |-> r.store]

\* BaseInstrumentor.instrument(): inst is the instance, W the callables and the
\* store of inst's class; raised = an error left instrument() (the probe is
\* outside its try block)
BaseInstrument(L, inst, W, fault) ==
    IF inst.is_instrumented
    THEN [ok |-> TRUE, raised |-> FALSE, inst |-> inst,
          methods |-> W.methods, store |-> W.store]
    ELSE IF ProbeRaises(L, inst.cls)
    THEN [ok |-> FALSE, raised |-> TRUE, inst |-> inst,
          methods |-> W.methods, store |-> W.store]
    ELSE IF ~check_installed(L, inst.cls)
    THEN [ok |-> FALSE, raised |-> FALSE, inst |-> inst,
          methods |-> W.methods, store |-> W.store]
    ELSE LET r == ApplyPatches(L, inst.cls, 1, W, FailAt(fault, inst.cls))
         IN  IF r.raised
             THEN [ok |-> FALSE, raised |-> FALSE, inst |-> inst,
                   methods |-> r.methods, store |-> r.store]
             ELSE [ok |-> TRUE, raised |-> FALSE,
                   inst |-> [inst EXCEPT !.is_instrumented = TRUE],
                   methods |-> r.methods, store |-> r.store]

\* an uninstrument() that lets the error of the revert through to the caller
\* (reported here as a failed call that cleared the flag) and runs the revert
\* on an instance that is not instrumented
BaseUninstrument_unguarded(inst, W, fault) ==
    LET r == RevertPatches(inst.cls, 1, W, FailAt(fault, inst.cls))
    IN  [ok |-> ~r.raised, inst |-> [inst EXCEPT !.is_instrumented = FALSE],
         methods |-> r.methods, store |-> r.store]

\* an uninstrument() that clears the flag before the revert has completed
BaseUninstrument_flagfirst(inst, W, fault) ==
    IF ~inst.is_instrumented
    THEN [ok |-> TRUE, inst |-> inst, methods |-> W.methods, store |-> W.store]
    ELSE LET r == RevertPatches(inst.cls, 1, W, FailAt(fault, inst.cls))
         IN  [ok |-> ~r.raised, inst |-> [inst EXCEPT !.is_instrumented = FALSE],
              methods |-> r.methods, store |-> r.store]

\* BaseInstrumentor.uninstrument()
BaseUninstrument(inst, W, fault) ==
    IF ~inst.is_instrumented
    THEN [ok |-> TRUE, inst |-> inst, methods |-> W.methods, store |-> W.store]
    ELSE LET r == RevertPatches(inst.cls, 1, W, FailAt(fault, inst.cls))
         IN  IF r.raised
             THEN [ok |-> FALSE, inst |-> inst,
                   methods |-> r.methods, store |-> r.store]
             ELSE [ok |-> TRUE, inst |-> [inst EXCEPT !.is_instrumented = FALSE],
                   methods |-> r.methods, store |-> r.store]

----------------------------------------------------------------------------
(* instrumentation/auto.py                                                 *)
(* S = [reg, active, methods, stores]: _INSTRUMENTORS, _active_instrumentors, *)
(* the installed callables and every class's _original_methods.            *)

\* importing the instrumentor module of variant v raises ImportError
ImportFails(L, v) == L[v] = "nomodule"

\* a registration that stops at the first instrumentor module that fails to
\* import
register_instrumentors_abort(L, reg) ==
    IF reg # <<>>
    THEN reg
    ELSE LET failing == {i \in 1..Len(Registry) : ImportFails(L, Registry[i])}
             stop == IF failing = {} THEN Len(Registry) + 1
                     ELSE CHOOSE i \in failing : \A j \in failing : i <= j
         IN  SubSeq(Registry, 1, stop - 1)

\* _register_instrumentors(): populates the empty catalog, each entry in a try
\* block of its own, else leaves the catalog alone
register_instrumentors(L, reg) ==
    IF reg # <<>>
    THEN reg
    ELSE SelectSeq(Registry, LAMBDA v : ~ImportFails(L, v))

\* a target set that compares the given names without lower-casing them
FrameworksToInstrument_nolower(reg, frameworks, exclude) ==
    LET chosen == IF ~frameworks.given
                  THEN {reg[i] : i \in 1..Len(reg)}
                  ELSE frameworks.names
    IN  IF exclude # {} THEN chosen \ exclude ELSE chosen

\* a target set that ignores exclude
FrameworksToInstrument_noexclude(reg, frameworks, exclude) ==
    IF ~frameworks.given
    THEN {reg[i] : i \in 1..Len(reg)}
    ELSE LowerAll(frameworks.names)

\* a target set that lower-cases frameworks and takes exclude as it is spelled
FrameworksToInstrument_excludeexact(reg, frameworks, exclude) ==
    LET chosen == IF ~frameworks.given
                  THEN {reg[i] : i \in 1..Len(reg)}
                  ELSE LowerAll(frameworks.names)
    IN  IF exclude # {} THEN chosen \ exclude ELSE chosen

\* frameworks_to_instrument of auto_instrument
FrameworksToInstrument(reg, frameworks, exclude) ==
    LET chosen == IF ~frameworks.given
                  THEN {reg[i] : i \in 1..Len(reg)}
                  ELSE LowerAll(frameworks.names)
    IN  IF exclude # {} THEN chosen \ LowerAll(exclude) ELSE chosen

\* a lookup that never finds the variant among the active instrumentors
ExistingInstrumented_never(active, v) == FALSE

\* next((i for i in _active_instrumentors if type(i).__name__ == cls.__name__), None)
\* followed by `existing and existing.is_instrumented`
ExistingInstrumented(active, v) ==
    LET idx == {i \in 1..Len(active) : active[i].cls = v}
    IN  /\ idx # {}
        /\ active[CHOOSE i \in idx : \A j \in idx : i <= j].is_instrumented

\* the body of the `for name, instrumentor_class in _INSTRUMENTORS.items()` loop
\* of auto_instrument, from the i-th registered name on; raised = an error left
\* auto_instrument, which then returns no map
RECURSIVE AutoLoop(_, _, _, _, _, _)
AutoLoop(L, i, S, target, fault, results) ==
    IF i > Len(S.reg)
    THEN [reg |-> S.reg, active |-> S.active, methods |-> S.methods,
          stores |-> S.stores, results |-> results, raised |-> FALSE]
    ELSE LET name == S.reg[i]
         IN  IF name \notin target
             THEN AutoLoop(L, i + 1, S, target, fault, results)
             ELSE IF ExistingInstrumented(S.active, name)
             THEN AutoLoop(L, i + 1, S, target, fault, (name :> TRUE) @@ results)
             ELSE LET r == BaseInstrument(L, NewInstrumentor(name),
                                          [methods |-> S.methods, store |-> S.stores[name]],
                                          fault)
                      S2 == [reg     |-> S.reg,
                             active  |-> IF r.ok THEN Append(S.active, r.inst) ELSE S.active,
                             methods |-> r.methods,
                             stores  |-> [S.stores EXCEPT ![name] = r.store]]
                  IN  IF r.raised
                      THEN [reg |-> S.reg, active |-> S.active, methods |-> S.methods,
                            stores |-> S.stores, results |-> EmptyMap, raised |-> TRUE]
                      ELSE AutoLoop(L, i + 1, S2, target, fault, (name :> r.ok) @@ results)

\* an auto_instrument that keeps in the active list only the instrumentors of
\* the frameworks this call selected
auto_instrument_rebuilds(L, S, frameworks, exclude, fault) ==
    LET reg    == register_instrumentors(L, S.reg)
        S1     == [reg |-> reg, active |-> S.active, methods |-> S.methods, stores |-> S.stores]
        target == FrameworksToInstrument(reg, frameworks, exclude)
        r      == AutoLoop(L, 1, S1, target, fault, EmptyMap)
    IN  [r EXCEPT !.active = SelectSeq(r.active, LAMBDA inst : inst.cls \in target)]

\* auto_instrument(frameworks, exclude); exclude None and exclude [] are both {}
auto_instrument(L, S, frameworks, exclude, fault) ==
    LET reg == register_instrumentors(L, S.reg)
        S1  == [reg |-> reg, active |-> S.active, methods |-> S.methods, stores |-> S.stores]
    IN  AutoLoop(L, 1, S1, FrameworksToInstrument(reg, frameworks, exclude), fault, EmptyMap)

\* a selection test that compares with the given names as they are spelled
NotSelected_nolower(inst, frameworks) ==
    frameworks.given /\ Lower(InstName(inst.cls)) \notin frameworks.names

\* `frameworks is not None and name not in [f.lower() for f in frameworks]`
NotSelected(inst, frameworks) ==
    frameworks.given /\ Lower(InstName(inst.cls)) \notin LowerAll(frameworks.names)

\* a loop that drops every instrumentor it called uninstrument() on, also one
\* whose revert failed
RECURSIVE UninstrumentLoop_dropfailed(_, _, _, _, _, _)
UninstrumentLoop_dropfailed(i, S, frameworks, fault, remaining, results) ==
    IF i > Len(S.active)
    THEN [reg |-> S.reg, active |-> remaining, methods |-> S.methods,
          stores |-> S.stores, results |-> results, raised |-> FALSE]
    ELSE LET inst == S.active[i]
             name == Lower(InstName(inst.cls))
         IN  IF NotSelected(inst, frameworks)
             THEN UninstrumentLoop_dropfailed(i + 1, S, frameworks, fault,
                                              Append(remaining, inst), results)
             ELSE LET r == BaseUninstrument(inst,
                                            [methods |-> S.methods, store |-> S.stores[inst.cls]],
                                            fault)
                      S2 == [reg     |-> S.reg,
                             active  |-> [S.active EXCEPT ![i] = r.inst],
                             methods |-> r.methods,
                             stores  |-> [S.stores EXCEPT ![inst.cls] = r.store]]
                  IN  UninstrumentLoop_dropfailed(i + 1, S2, frameworks, fault, remaining,
                                                  (name :> r.ok) @@ results)

\* the `for instrumentor in _active_instrumentors` loop of uninstrument, from the
\* i-th active instrumentor on
RECURSIVE UninstrumentLoop(_, _, _, _, _, _)
UninstrumentLoop(i, S, frameworks, fault, remaining, results) ==
    IF i > Len(S.active)
    THEN [reg |-> S.reg, active |-> remaining, methods |-> S.methods,
          stores |-> S.stores, results |-> results, raised |-> FALSE]
    ELSE LET inst == S.active[i]
             name == Lower(InstName(inst.cls))
         IN  IF NotSelected(inst, frameworks)
             THEN UninstrumentLoop(i + 1, S, frameworks, fault, Append(remaining, inst), results)
             ELSE LET r == BaseUninstrument(inst,
                                            [methods |-> S.methods, store |-> S.stores[inst.cls]],
                                            fault)
                      S2 == [reg     |-> S.reg,
                             active  |-> [S.active EXCEPT ![i] = r.inst],
                             methods |-> r.methods,
                             stores  |-> [S.stores EXCEPT ![inst.cls] = r.store]]
                  IN  UninstrumentLoop(i + 1, S2, frameworks, fault,
                                       IF r.ok THEN remaining ELSE Append(remaining, r.inst),
                                       (name :> r.ok) @@ results)

\* an uninstrument whose loop keeps only the instrumentors whose revert failed
uninstrument_dropsunselected(S, frameworks, fault) ==
    LET r == UninstrumentLoop(1, S, frameworks, fault, <<>>, EmptyMap)
    IN  [r EXCEPT !.active = SelectSeq(r.active, LAMBDA inst : ~NotSelected(inst, frameworks))]

\* uninstrument(frameworks)
uninstrument(S, frameworks, fault) ==
    UninstrumentLoop(1, S, frameworks, fault, <<>>, EmptyMap)

\* a listing that returns the display names as they are
get_instrumented_frameworks_nolower(active) ==
    LET RECURSIVE names(_)
        names(i) == IF i > Len(active) THEN <<>>
                    ELSE IF active[i].is_instrumented
                    THEN <<InstName(active[i].cls)>> \o names(i + 1)
                    ELSE names(i + 1)
    IN  names(1)

\* get_instrumented_frameworks()
get_instrumented_frameworks(active) ==
    LET RECURSIVE names(_)
        names(i) == IF i > Len(active) THEN <<>>
                    ELSE IF active[i].is_instrumented
                    THEN <<Lower(InstName(active[i].cls))>> \o names(i + 1)
                    ELSE names(i + 1)
    IN  names(1)

\* a query that compares with the given name as it is spelled
is_instrumented_exact(active, framework) ==
    \E i \in 1..Len(active) :
        Lower(InstName(active[i].cls)) = framework /\ active[i].is_instrumented

\* is_instrumented(framework)
is_instrumented(active, framework) ==
    \E i \in 1..Len(active) :
        Lower(InstName(active[i].cls)) = Lower(framework) /\ active[i].is_instrumented

----------------------------------------------------------------------------
(* The call wrappers built by the instrumentors' _create_*_wrapper          *)
(* factories.  All of them share one shape: resolve the telemetry sink,     *)
(* pass through when there is none, otherwise call the wrapped callable in  *)
(* try / except Exception / finally and send one span from the finally.     *)

\* values an original may return: None, a list of MaxDocs documents, an empty
\* list, a tuple of MaxDocs documents, a response object, a generator (truthy,
\* no __len__), and a response object that has no `raw` attribute and whose
\* additional_kwargs is None
Values == {"None", "list", "empty_list", "tuple", "object", "generator", "bare"}

\* bool(value), isinstance(value, list) and len(value) of a returned value
Truthy(value) == value \notin {"None", "empty_list"}
IsList(value) == value \in {"list", "empty_list"}
Length(value) == IF value \in {"list", "tuple"} THEN MaxDocs ELSE 0

\* errors an original may raise: ValueError derives from Exception;
\* CancelledError and KeyboardInterrupt derive from BaseException only
Errors == {"ValueError", "CancelledError", "KeyboardInterrupt"}

\* what `except Exception` catches
IsException(e) == e \notin {"CancelledError", "KeyboardInterrupt"}

Return(v) == [kind |-> "return", value |-> v]
Raise(e) == [kind |-> "raise", value |-> e]

\* the outcomes of an original call
Outcomes == {Return(v) : v \in Values} \cup {Raise(e) : e \in Errors}

\* the factory that builds the wrapper installed at a patch target
Factory(key) ==
    CASE key \in {"openai.Completions.create", "openai.AsyncCompletions.create"}
            -> "openai.chat"
      [] key \in {"openai.Embeddings.create", "openai.AsyncEmbeddings.create"}
            -> "openai.embedding"
      [] key \in {"anthropic.Messages.create", "anthropic.AsyncMessages.create"}
            -> "anthropic.messages"
      [] key \in {"langchain.BaseChatModel.invoke", "langchain.BaseLLM.invoke"}
            -> "langchain.llm_invoke"
      [] key \in {"langchain.BaseChatModel.ainvoke", "langchain.BaseLLM.ainvoke"}
            -> "langchain.llm_ainvoke"
      [] key = "langchain.BaseRetriever.invoke" -> "langchain.retriever_invoke"
      [] key \in {"langchain.Embeddings.embed_documents",
                  "langchain.Embeddings.embed_query"} -> "langchain.embeddings"
      [] key = "langchain.BaseTool.invoke" -> "langchain.tool_invoke"
      [] key = "langchain.RunnableSequence.invoke" -> "langchain.chain_invoke"
      [] key = "langchain.AgentExecutor.invoke" -> "langchain.agent_invoke"
      [] key = "llamaindex.BaseQueryEngine.query" -> "llamaindex.query"
      [] key = "llamaindex.BaseQueryEngine.aquery" -> "llamaindex.aquery"
      [] key = "llamaindex.BaseRetriever.retrieve" -> "llamaindex.retrieve"
      [] key = "llamaindex.LLM.complete" -> "llamaindex.llm_complete"
      [] key = "llamaindex.LLM.chat" -> "llamaindex.llm_chat"
      [] key \in {"llamaindex.BaseEmbedding.get_text_embedding",
                  "llamaindex.BaseEmbedding.get_query_embedding"} -> "llamaindex.embed"
      [] key \in {"google.GenerativeModel.generate_content",
                  "google.GenerativeModel.generate_content_async"} -> "google.generate"
      [] key = "genai.embed_content" -> "google.embed"

\* the targets whose wrapper is an `async def`
AsyncTargets ==
    {"openai.AsyncCompletions.create", "openai.AsyncEmbeddings.create",
     "anthropic.AsyncMessages.create",
     "langchain.BaseChatModel.ainvoke", "langchain.BaseLLM.ainvoke",
     "llamaindex.BaseQueryEngine.aquery",
     "google.GenerativeModel.generate_content_async"}

\* span_kwargs["span_type"] of the wrapper a factory builds
SpanType(f) ==
    CASE f \in {"openai.chat", "anthropic.messages", "langchain.llm_invoke",
                "langchain.llm_ainvoke", "llamaindex.llm_complete",
                "llamaindex.llm_chat", "google.generate"} -> "LLM"
      [] f \in {"openai.embedding", "langchain.embeddings", "llamaindex.embed",
                "google.embed"} -> "EMBEDDING"
      [] f \in {"langchain.retriever_invoke", "llamaindex.retrieve"} -> "RETRIEVER"
      [] f \in {"langchain.chain_invoke", "llamaindex.query", "llamaindex.aquery"}
            -> "CHAIN"
      [] f = "langchain.tool_invoke" -> "TOOL"
      [] f = "langchain.agent_invoke" -> "AGENT"

\* no wrapper calls new_trace
StartsTrace_never(f) == FALSE

\* the wrappers that call telemetry.new_trace() before the wrapped callable
StartsTrace(f) ==
    f \in {"langchain.chain_invoke", "langchain.agent_invoke",
           "llamaindex.query", "llamaindex.aquery"}

\* the wrappers whose error branch sets span_kwargs["error_type"]
SetsErrorType(f) ==
    f \in {"openai.chat", "anthropic.messages", "langchain.llm_invoke",
           "langchain.llm_ainvoke", "langchain.chain_invoke",
           "langchain.agent_invoke", "llamaindex.query", "llamaindex.aquery",
           "llamaindex.llm_complete", "llamaindex.llm_chat", "google.generate"}

\* the error the finally block's extraction raises on a returned value, or
\* "none": llamaindex retrieve takes len() of every truthy result; llamaindex
\* complete / chat call .get on additional_kwargs when the response has no `raw`
ExtractionError(f, response) ==
    CASE f = "llamaindex.retrieve" /\ response \in {"object", "generator", "bare"}
            -> "TypeError"
      [] f \in {"llamaindex.llm_complete", "llamaindex.llm_chat"} /\ response = "bare"
            -> "AttributeError"
      [] OTHER -> "none"

\* how the telemetry core behaves during one invocation: with no sink
\* configured get_telemetry() returns None or raises RuntimeError; with a sink
\* configured it returns the sink, whose operations work ("healthy") or one of
\* which raises
TelemetryBehaviours(s) ==
    IF s = "unconfigured"
    THEN {"returns_none", "raises_RuntimeError"}
    ELSE {"healthy", "resolve_raises", "new_trace_raises", "send_span_raises"}

\* core.telemetry.get_telemetry()
get_telemetry(tel) ==
    CASE tel = "returns_none"        -> Return("None")
      [] tel = "raises_RuntimeError" -> Raise("RuntimeError")
      [] tel = "resolve_raises"      -> Raise("ImportError")
      [] OTHER                       -> Return("telemetry")

\* a _get_telemetry that answers with what was there when the wrapper was
\* built, before any sink was configured: None
instrumentor_get_telemetry_atinstall(tel) == Return("None")

\* a _get_telemetry that lets RuntimeError through
instrumentor_get_telemetry_nocatch(tel) == get_telemetry(tel)

\* <Instrumentor>._get_telemetry(): RuntimeError becomes None
instrumentor_get_telemetry(tel) ==
    IF get_telemetry(tel) = Raise("RuntimeError")
    THEN Return("None")
    ELSE get_telemetry(tel)

\* events of one invocation, in the order they happen
OriginalRan == [type |-> "original"]
NewTrace == [type |-> "new_trace"]

\* docs_count of the retriever wrappers: LangChain counts a non-empty list,
\* LlamaIndex takes len() of every truthy result
DocsRetrieved(f, result) ==
    IF f = "langchain.retriever_invoke"
    THEN IF Truthy(result) /\ IsList(result) THEN Length(result) ELSE 0
    ELSE IF Truthy(result) THEN Length(result) ELSE 0

\* the span_kwargs a wrapper of factory f sends; error_info is the exception
\* caught by `except Exception`, or "none"; result is the returned value, None
\* when the call raised
SpanKwargs(f, error_info, result) ==
    (IF SpanType(f) = "RETRIEVER"
     THEN [documents_retrieved |-> DocsRetrieved(f, result)]
     ELSE EmptyMap) @@
    [type          |-> "span",
     span_type     |-> SpanType(f),
     status        |-> IF error_info # "none" THEN "ERROR" ELSE "unset",
     is_error      |-> IF error_info # "none" THEN 1 ELSE 0,
     error_message |-> error_info,
     error_type    |-> IF error_info # "none" /\ SetsErrorType(f)
                       THEN error_info ELSE "none"]

\* calling the callable of nesting depth d installed at `key`: the true
\* original (whose outcome is orig) when d is Original, otherwise a wrapper
\* around the callable of depth d - 1
RECURSIVE CallThrough(_, _, _, _)
CallThrough(key, d, orig, tel) ==
    IF d = Original
    THEN [out |-> orig, events |-> <<OriginalRan>>]
    ELSE
    LET f == Factory(key)
        telemetry == instrumentor_get_telemetry(tel)
        inner == CallThrough(key, d - 1, orig, tel)
        started == IF StartsTrace(f) THEN <<NewTrace>> ELSE <<>>
        error_info == IF inner.out.kind = "raise" /\ IsException(inner.out.value)
                      THEN inner.out.value ELSE "none"
        response == IF inner.out.kind = "return" THEN inner.out.value ELSE "None"
        extraction == ExtractionError(f, response)
    IN  IF telemetry.kind = "raise"
        THEN [out |-> telemetry, events |-> <<>>]
        ELSE IF telemetry.value = "None"
        THEN inner
        ELSE IF StartsTrace(f) /\ tel = "new_trace_raises"
        THEN [out |-> Raise("SinkError"), events |-> <<>>]
        ELSE IF extraction # "none"
        THEN [out |-> Raise(extraction), events |-> started \o inner.events]
        ELSE IF tel = "send_span_raises"
        THEN [out |-> Raise("SinkError"), events |-> started \o inner.events]
        ELSE [out |-> inner.out,
              events |-> started \o inner.events \o <<SpanKwargs(f, error_info, response)>>]

----------------------------------------------------------------------------
(* The state machine of the lifecycle API.                                 *)

\* the lifecycle state the operations read and write
Cur == [reg |-> INSTRUMENTORS, active |-> active_instrumentors,
        methods |-> methods, stores |-> original_methods]

\* argument values of the calls of the model
SelSets == {A \in SUBSET SelNames : Cardinality(A) <= MaxSel}
FrameworkArgs == {None} \cup {Some(A) : A \in SelSets}
ExcludeArgs == SelSets

\* injected failures: variant v's _instrument / _uninstrument raises after `at`
\* completed patch steps (a library of unexpected shape, a scope refusing setattr)
Faults(L) == {NoFault} \cup
             {f \in [v : Variants, at : 0..(Len(LangChainTargets) - 1)] :
                 L[f.v] = "present" /\ f.at < Len(Targets(f.v))}

\* the deepest wrapper nesting among the callables m
Deepest(m) == CHOOSE d \in 0..(MaxDepth + 1) :
                  /\ \A k \in AllTargets : m[k] <= d
                  /\ \E k \in AllTargets : m[k] = d

\* no call recorded
NoCall == [op |-> "none", frameworks |-> None, exclude |-> {}, fault |-> NoFault,
           results |-> EmptyMap, raised |-> FALSE, pre |-> [reg |-> <<>>, active |-> <<>>,
           methods |-> [k \in AllTargets |-> Original],
           stores |-> [v \in Variants |-> EmptyMap]]]

\* no invocation of a patch target recorded
NoInvocation == [key |-> "none", orig |-> [kind |-> "return", value |-> "None"],
                 tel |-> "none", out |-> [kind |-> "return", value |-> "None"],
                 events |-> <<>>]

\* the concurrent callers of a wrapper, and a caller that is not in a call
Callers == 1..MaxCallers
NoFrame == [pc |-> "idle", key |-> "none", tel |-> "none", telemetry |-> "None",
            orig |-> [kind |-> "return", value |-> "None"],
            error_info |-> "none", response |-> "None",
            out |-> [kind |-> "return", value |-> "None"], events |-> <<>>]

\* the threads that call auto_instrument concurrently, and one that is not in
\* a call
Threads == 1..MaxThreads
NoThread == [pc |-> "idle", i |-> 0, at |-> 0]

\* the library environments with at most n importable libraries
Libraries(n) == {L \in [Variants -> {"absent", "present"}] :
                    Cardinality({v \in Variants : L[v] = "present"}) <= n}

\* the state after import, before any call, in a library environment of Ls
Start(Ls) ==
    /\ lib \in Ls
    /\ INSTRUMENTORS = <<>>
    /\ active_instrumentors = <<>>
    /\ methods = [k \in AllTargets |-> Original]
    /\ original_methods = [v \in Variants |-> EmptyMap]
    /\ last = NoCall
    /\ sink = "unconfigured"
    /\ call = NoInvocation
    /\ callers = [c \in Callers |-> NoFrame]
    /\ threads = [t \in Threads |-> NoThread]
    /\ instances = [v \in Variants |-> NewInstrumentor(v)]

Init == Start(Libraries(MaxPresent))

\* the state after a call returned r; the call is recorded in `last`
Returned(op, frameworks, exclude, fault, r) ==
    /\ INSTRUMENTORS' = r.reg
    /\ active_instrumentors' = r.active
    /\ methods' = r.methods
    /\ original_methods' = r.stores
    /\ last' = [op |-> op, frameworks |-> frameworks, exclude |-> exclude,
                fault |-> fault, results |-> r.results, raised |-> r.raised,
                pre |-> Cur]
    /\ UNCHANGED <<lib, sink, call, concurrent>>

\* a caller calls auto_instrument(frameworks, exclude)
AutoInstrument ==
    /\ last.op = "none"
    /\ \E frameworks \in FrameworkArgs, exclude \in ExcludeArgs :
        Returned("auto_instrument", frameworks, exclude, NoFault,
                 auto_instrument(lib, Cur, frameworks, exclude, NoFault))

\* a caller calls uninstrument(frameworks)
Uninstrument ==
    /\ last.op = "none"
    /\ \E frameworks \in FrameworkArgs :
        Returned("uninstrument", frameworks, {}, NoFault,
                 uninstrument(Cur, frameworks, NoFault))

\* the caller drops the returned map; the record of the call is cleared
Forget ==
    /\ last.op # "none"
    /\ last' = NoCall
    /\ UNCHANGED <<lib, INSTRUMENTORS, active_instrumentors, methods, original_methods,
                   sink, call, concurrent>>

Next == AutoInstrument \/ Uninstrument \/ Forget

Spec == Init /\ [][Next]_vars

----------------------------------------------------------------------------
(* The lifecycle API with patch application and revert that may raise.     *)
(* A failure concerns one variant and touches only that variant's targets  *)
(* and store, so these runs have a single importable library and pass no   *)
(* exclude list.                                                           *)

\* auto_instrument during which one variant's _instrument may raise part-way
AutoInstrumentFaulty ==
    /\ last.op = "none"
    /\ \E frameworks \in FrameworkArgs, fault \in Faults(lib) :
        LET r == auto_instrument(lib, Cur, frameworks, {}, fault)
        IN  /\ Deepest(r.methods) <= MaxDepth
            /\ Returned("auto_instrument", frameworks, {}, fault, r)

\* uninstrument during which one variant's _uninstrument may raise part-way
UninstrumentFaulty ==
    /\ last.op = "none"
    /\ \E frameworks \in FrameworkArgs, fault \in Faults(lib) :
        Returned("uninstrument", frameworks, {}, fault,
                 uninstrument(Cur, frameworks, fault))

NextFault == AutoInstrumentFaulty \/ UninstrumentFaulty \/ Forget

\* at most one library is importable
SingleLibrary == {L \in Libraries(MaxPresent) :
                     \A v, w \in Variants : L[v] = "present" /\ L[w] = "present" => v = w}

InitFault == Start(SingleLibrary)

SpecFault == InitFault /\ [][NextFault]_vars

----------------------------------------------------------------------------
(* The lifecycle API when a library is installed but importing it raises an *)
(* error other than ImportError (an incompatible dependency, a broken       *)
(* install).                                                                *)

\* one library whose import raises, and at most one importable library
BrokenLibrary ==
    {L \in [Variants -> {"absent", "present", "broken"}] :
        /\ Cardinality({v \in Variants : L[v] = "broken"}) = 1
        /\ Cardinality({v \in Variants : L[v] = "present"}) <= 1}

InitProbe == Start(BrokenLibrary)

SpecProbe == InitProbe /\ [][Next]_vars

----------------------------------------------------------------------------
(* Invocations of the patch targets.  A single library is importable; it   *)
(* is instrumented and uninstrumented, with patch steps that may raise, and *)
(* between lifecycle calls a caller invokes one of its patch targets.  The  *)
(* invocation runs through whatever callable is installed at the target.    *)

\* setup_telemetry(...) configures the sink
SetupTelemetry ==
    /\ sink = "unconfigured"
    /\ call = NoInvocation
    /\ sink' = "configured"
    /\ UNCHANGED <<lib, INSTRUMENTORS, active_instrumentors, methods, original_methods,
                   last, call, concurrent>>

\* the lifecycle state becomes that of r; the returned map is dropped
Applied(r) ==
    /\ INSTRUMENTORS' = r.reg
    /\ active_instrumentors' = r.active
    /\ methods' = r.methods
    /\ original_methods' = r.stores
    /\ UNCHANGED <<lib, last, sink, call, concurrent>>

\* auto_instrument() between invocations
Install ==
    /\ call = NoInvocation
    /\ \E fault \in Faults(lib) :
        LET r == auto_instrument(lib, Cur, None, {}, fault)
        IN  Deepest(r.methods) <= MaxDepth /\ Applied(r)

\* uninstrument() between invocations
Remove ==
    /\ call = NoInvocation
    /\ \E fault \in Faults(lib) : Applied(uninstrument(Cur, None, fault))

\* a caller invokes the callable installed at a patch target of an importable
\* library; the original's outcome and the telemetry core's behaviour are the
\* environment's
Invoke ==
    /\ call = NoInvocation
    /\ \E key \in AllTargets, orig \in Outcomes, tel \in TelemetryBehaviours(sink) :
        /\ hasattr(lib, key)
        /\ LET r == CallThrough(key, methods[key], orig, tel)
           IN  call' = [key |-> key, orig |-> orig, tel |-> tel,
                        out |-> r.out, events |-> r.events]
    /\ UNCHANGED <<lib, INSTRUMENTORS, active_instrumentors, methods, original_methods,
                   last, sink, concurrent>>

\* the caller has taken the outcome
Returns ==
    /\ call # NoInvocation
    /\ call' = NoInvocation
    /\ UNCHANGED <<lib, INSTRUMENTORS, active_instrumentors, methods, original_methods,
                   last, sink, concurrent>>

NextCall == SetupTelemetry \/ Install \/ Remove \/ Invoke \/ Returns

SpecCall == InitFault /\ [][NextCall]_vars

----------------------------------------------------------------------------
(* Invocations of patch targets that were instrumented before               *)
(* setup_telemetry: every auto_instrument / uninstrument call happens while *)
(* no sink is configured, and nothing is instrumented again afterwards.     *)

\* auto_instrument() before setup_telemetry
InstallUnconfigured == sink = "unconfigured" /\ Install

\* uninstrument() before setup_telemetry
RemoveUnconfigured == sink = "unconfigured" /\ Remove

NextLazy == InstallUnconfigured \/ RemoveUnconfigured \/ SetupTelemetry \/ Invoke \/ Returns

SpecLazy == InitFault /\ [][NextLazy]_vars

----------------------------------------------------------------------------
(* Concurrent invocations of one wrapper, step by step.  Each caller runs   *)
(* the wrapper in its own frame: telemetry, error_info and response are     *)
(* locals of the wrapper function; the installed callable, the sink and the *)
(* instrumentor are shared.  The steps of different callers interleave.     *)

\* caller c's frame becomes f
Frame(c, f) ==
    /\ callers' = [callers EXCEPT ![c] = f]
    /\ UNCHANGED <<lib, INSTRUMENTORS, active_instrumentors, methods, original_methods,
                   last, sink, call, threads, instances>>

\* auto_instrument() while callers may be in a call
InstallConcurrently ==
    /\ \A k \in AllTargets : methods[k] = Original
    /\ LET r == auto_instrument(lib, Cur, None, {}, NoFault)
       IN  /\ INSTRUMENTORS' = r.reg
           /\ active_instrumentors' = r.active
           /\ methods' = r.methods
           /\ original_methods' = r.stores
    /\ UNCHANGED <<lib, last, sink, call, concurrent>>

\* setup_telemetry(...) while callers may be in a call
SetupConcurrently ==
    /\ sink = "unconfigured"
    /\ sink' = "configured"
    /\ UNCHANGED <<lib, INSTRUMENTORS, active_instrumentors, methods, original_methods,
                   last, call, concurrent>>

\* a wrapper that holds a lock from entry to return: a caller gets in only
\* when no other caller is in the wrapper
Enter_locked(c) ==
    /\ callers[c].pc = "idle"
    /\ \A d \in Callers : callers[d].pc = "idle"
    /\ \E key \in AllTargets :
        /\ hasattr(lib, key) /\ methods[key] = wrapper_func(Original)
        /\ Frame(c, [NoFrame EXCEPT !.pc = "resolve", !.key = key])

\* caller c invokes the installed wrapper the other callers are in
Enter(c) ==
    /\ callers[c].pc = "idle"
    /\ \E key \in AllTargets :
        /\ hasattr(lib, key) /\ methods[key] = wrapper_func(Original)
        /\ \A d \in Callers : callers[d].pc # "idle" => callers[d].key = key
        /\ Frame(c, [NoFrame EXCEPT !.pc = "resolve", !.key = key])

\* telemetry = instrumentor._get_telemetry(), and telemetry.new_trace() in the
\* wrappers that start a trace
Resolve(c) ==
    /\ callers[c].pc = "resolve"
    /\ \E tel \in TelemetryBehaviours(sink) :
        LET f == callers[c]
            telemetry == instrumentor_get_telemetry(tel)
        IN  IF telemetry.kind = "raise"
            THEN Frame(c, [f EXCEPT !.pc = "done", !.tel = tel, !.out = telemetry])
            ELSE IF telemetry.value = "None"
            THEN Frame(c, [f EXCEPT !.pc = "calling", !.tel = tel])
            ELSE IF StartsTrace(Factory(f.key)) /\ tel = "new_trace_raises"
            THEN Frame(c, [f EXCEPT !.pc = "done", !.tel = tel,
                                    !.out = Raise("SinkError")])
            ELSE Frame(c, [f EXCEPT !.pc = "calling", !.tel = tel,
                                    !.telemetry = telemetry.value,
                                    !.events = IF StartsTrace(Factory(f.key))
                                               THEN <<NewTrace>> ELSE <<>>])

\* the original returns or raises: the pass-through hands the outcome on, the
\* try block sets response or error_info
OriginalCompletes(c) ==
    /\ callers[c].pc = "calling"
    /\ \E orig \in Outcomes :
        LET f == callers[c]
            g == [f EXCEPT !.orig = orig, !.events = Append(f.events, OriginalRan)]
        IN  IF f.telemetry = "None"
            THEN Frame(c, [g EXCEPT !.pc = "done", !.out = orig])
            ELSE Frame(c, [g EXCEPT
                     !.pc = "finally",
                     !.error_info = IF orig.kind = "raise" /\ IsException(orig.value)
                                    THEN orig.value ELSE "none",
                     !.response = IF orig.kind = "return" THEN orig.value ELSE "None"])

\* the finally block: extraction, span_kwargs, telemetry.send_span
Finally(c) ==
    /\ callers[c].pc = "finally"
    /\ LET f == callers[c]
           extraction == ExtractionError(Factory(f.key), f.response)
       IN  IF extraction # "none"
           THEN Frame(c, [f EXCEPT !.pc = "done", !.out = Raise(extraction)])
           ELSE IF f.tel = "send_span_raises"
           THEN Frame(c, [f EXCEPT !.pc = "done", !.out = Raise("SinkError")])
           ELSE Frame(c, [f EXCEPT
                    !.pc = "done", !.out = f.orig,
                    !.events = Append(f.events,
                                      SpanKwargs(Factory(f.key), f.error_info, f.response))])

\* caller c has taken the outcome
Leave(c) ==
    /\ callers[c].pc = "done"
    /\ Frame(c, NoFrame)

NextConcurrent ==
    \/ InstallConcurrently
    \/ SetupConcurrently
    \/ \E c \in Callers : Enter(c)
    \/ \E c \in Callers : Resolve(c)
    \/ \E c \in Callers : OriginalCompletes(c)
    \/ \E c \in Callers : Finally(c)
    \/ \E c \in Callers : Leave(c)

SpecConcurrent == InitFault /\ [][NextConcurrent]_vars

----------------------------------------------------------------------------
(* Concurrent invocations of one asynchronous wrapper, step by step, with   *)
(* the sink's operations working: coroutines on one event loop, each one    *)
(* suspended while it awaits the original.                                  *)

\* the outcomes of an awaited original: a response, an exception, a
\* cancellation
AwaitedOutcomes == {Return("object"), Raise("ValueError"), Raise("CancelledError")}

\* every caller in a call is in an asynchronous wrapper, the telemetry core
\* works, and the originals end in one of the awaited outcomes
OnEventLoop ==
    \A c \in Callers :
        /\ callers[c].pc # "idle" => callers[c].key \in AsyncTargets
        /\ callers[c].tel \in {"none", "healthy", "returns_none"}
        /\ callers[c].pc \in {"finally", "done"} => callers[c].orig \in AwaitedOutcomes

NextAsync ==
    \/ InstallConcurrently /\ OnEventLoop'
    \/ SetupConcurrently /\ OnEventLoop'
    \/ \E c \in Callers : Enter(c) /\ OnEventLoop'
    \/ \E c \in Callers : Resolve(c) /\ OnEventLoop'
    \/ \E c \in Callers : OriginalCompletes(c) /\ OnEventLoop'
    \/ \E c \in Callers : Finally(c) /\ OnEventLoop'
    \/ \E c \in Callers : Leave(c) /\ OnEventLoop'

SpecAsync == InitFault /\ [][NextAsync]_vars

----------------------------------------------------------------------------
(* The arguments of an invocation.  A wrapper is declared with variadic      *)
(* positional and keyword parameters, after a leading self_instance in some  *)
(* wrappers, and calls the callable it wraps with what it was called with.   *)

\* what a caller passes: the receiver first, then an input or none, and a
\* `model` keyword or none
Arguments ==
    [positional : {<<"self">>, <<"self", "input">>},
     keywords   : {EmptyMap, [model |-> "gpt-4"]}]

\* the wrappers declared with a leading self_instance parameter
TakesReceiver(f) == f \notin {"openai.chat", "openai.embedding", "anthropic.messages",
                              "google.embed"}

\* a wrapper that takes the keywords it reads out of what it passes on
Forwarded_popped(f, a) == [positional |-> a.positional, keywords |-> EmptyMap]

\* the arguments the wrapper of factory f calls the wrapped callable with, when
\* called with a: the positional and keyword arguments spread again, after
\* self_instance where that parameter took the first positional argument
Forwarded(f, a) ==
    IF TakesReceiver(f)
    THEN LET self_instance == Head(a.positional)
             args == Tail(a.positional)
         IN  [positional |-> <<self_instance>> \o args, keywords |-> a.keywords]
    ELSE [positional |-> a.positional, keywords |-> a.keywords]

\* the arguments that reach the true original through d wrappers
RECURSIVE Received(_, _, _)
Received(key, d, a) ==
    IF d = Original THEN a ELSE Received(key, d - 1, Forwarded(Factory(key), a))

\* what an original that was not invoked received
NotCalled == [positional |-> <<>>, keywords |-> EmptyMap]

\* a caller invokes the callable installed at a patch target with arguments;
\* the original returns a response, raises an exception or is cancelled
InvokeWith ==
    /\ call = NoInvocation
    /\ \E key \in AllTargets, orig \in AwaitedOutcomes, tel \in TelemetryBehaviours(sink),
          a \in Arguments :
        /\ hasattr(lib, key)
        /\ LET r == CallThrough(key, methods[key], orig, tel)
           IN  call' = [key |-> key, orig |-> orig, tel |-> tel,
                        out |-> r.out, events |-> r.events,
                        arguments |-> a,
                        received |-> IF \E i \in DOMAIN r.events : r.events[i] = OriginalRan
                                     THEN Received(key, methods[key], a)
                                     ELSE NotCalled]
    /\ UNCHANGED <<lib, INSTRUMENTORS, active_instrumentors, methods, original_methods,
                   last, sink, concurrent>>

NextArguments == SetupTelemetry \/ Install \/ Remove \/ InvokeWith \/ Returns

SpecArguments == InitFault /\ [][NextArguments]_vars

----------------------------------------------------------------------------
(* Concurrent auto_instrument() calls, step by step.  auto_instrument takes *)
(* no lock: between the look-up of an existing instrumentor, the patches of *)
(* _instrument and the append to _active_instrumentors another thread may   *)
(* run.  A thread's frame holds its place in the loop over _INSTRUMENTORS   *)
(* (i) and in the patches of _instrument (at).                              *)

\* thread t's frame becomes f, the lifecycle state that of S
Step(t, f, S) ==
    /\ threads' = [threads EXCEPT ![t] = f]
    /\ INSTRUMENTORS' = S.reg
    /\ active_instrumentors' = S.active
    /\ methods' = S.methods
    /\ original_methods' = S.stores
    /\ UNCHANGED <<lib, last, sink, call, callers, instances>>

\* the frame at the next registered name, or at the return
Advance(f) ==
    IF f.i >= Len(Registry)
    THEN [pc |-> "done", i |-> 0, at |-> 0]
    ELSE [pc |-> "check", i |-> f.i + 1, at |-> 0]

\* thread t calls auto_instrument(): _register_instrumentors()
Begin(t) ==
    /\ threads[t].pc = "idle"
    /\ Step(t, [pc |-> "check", i |-> 1, at |-> 0],
            [Cur EXCEPT !.reg = register_instrumentors(lib, INSTRUMENTORS)])

\* the look-up of an existing instrumentor, and instrument() up to its
\* _check_installed()
Check(t) ==
    /\ threads[t].pc = "check"
    /\ LET f == threads[t]
           name == INSTRUMENTORS[f.i]
       IN  IF ExistingInstrumented(active_instrumentors, name)
              \/ ~check_installed(lib, name)
           THEN Step(t, Advance(f), Cur)
           ELSE Step(t, [f EXCEPT !.pc = "patch", !.at = 1], Cur)

\* one wrap_method call of _instrument
Patch(t) ==
    /\ threads[t].pc = "patch"
    /\ LET f == threads[t]
           name == INSTRUMENTORS[f.i]
           w == wrap_method(lib, Targets(name)[f.at],
                            [methods |-> methods, store |-> original_methods[name]])
           S == [Cur EXCEPT !.methods = w.methods, !.stores[name] = w.store]
       IN  /\ w.methods[Targets(name)[f.at]] <= MaxDepth
           /\ IF f.at >= Len(Targets(name))
              THEN Step(t, [f EXCEPT !.pc = "append"], S)
              ELSE Step(t, [f EXCEPT !.at = f.at + 1], S)

\* self._is_instrumented = True, and _active_instrumentors.append(instrumentor)
AppendActive(t) ==
    /\ threads[t].pc = "append"
    /\ LET f == threads[t]
           inst == [NewInstrumentor(INSTRUMENTORS[f.i]) EXCEPT !.is_instrumented = TRUE]
       IN  Step(t, Advance(f),
                [Cur EXCEPT !.active = Append(active_instrumentors, inst)])

\* auto_instrument returns to thread t
End(t) ==
    /\ threads[t].pc = "done"
    /\ Step(t, NoThread, Cur)

\* uninstrument() while no auto_instrument call is running
UninstrumentQuiet ==
    /\ \A t \in Threads : threads[t].pc = "idle"
    /\ active_instrumentors # <<>>
    /\ LET r == uninstrument(Cur, None, NoFault)
       IN  /\ INSTRUMENTORS' = r.reg
           /\ active_instrumentors' = r.active
           /\ methods' = r.methods
           /\ original_methods' = r.stores
    /\ UNCHANGED <<lib, last, sink, call, concurrent>>

NextRace ==
    \/ \E t \in Threads : Begin(t)
    \/ \E t \in Threads : Check(t)
    \/ \E t \in Threads : Patch(t)
    \/ \E t \in Threads : AppendActive(t)
    \/ \E t \in Threads : End(t)
    \/ UninstrumentQuiet

SpecRace == InitFault /\ [][NextRace]_vars

----------------------------------------------------------------------------
(* The lifecycle API when a library is importable but lacks the classes and *)
(* methods the instrumentor looks for (another version of the library).     *)

\* at most one library is importable, with the expected shape or without it
DriftedLibrary ==
    {L \in [Variants -> {"absent", "present", "drifted"}] :
        Cardinality({v \in Variants : L[v] # "absent"}) <= 1}

InitDrift == Start(DriftedLibrary)

SpecDrift == InitDrift /\ [][Next]_vars

----------------------------------------------------------------------------
(* The lifecycle API when some instrumentor modules of the package cannot   *)
(* be imported (ImportError from the module or from what it imports).       *)

\* at least one instrumentor module fails to import, and at most one of the
\* target libraries is importable
FailingModules ==
    {L \in [Variants -> {"absent", "present", "nomodule"}] :
        /\ \E v \in Variants : L[v] = "nomodule"
        /\ Cardinality({v \in Variants : L[v] = "present"}) <= 1}

InitRegister == Start(FailingModules)

SpecRegister == InitRegister /\ [][Next]_vars

----------------------------------------------------------------------------
(* Direct use of the instrumentor classes and of the patch utilities of     *)
(* base.py.  A client constructs an instance of an instrumentor class and   *)
(* calls instrument() / uninstrument() on it, and calls wrap_method /       *)
(* unwrap_method on a patch target with the class's store.                  *)

\* the patch targets the client passes to the utilities itself: the first
\* target of every variant
DirectKeys == {Targets(v)[1] : v \in Variants}

\* what a direct call on variant v reads and writes: v's instance, the
\* installed callables and the store of v's class
Held(v) == [inst |-> instances[v], methods |-> methods, store |-> original_methods[v]]

\* the state after a direct call on variant v returned r and left v's instance
\* as inst; the call is recorded in `last`
Direct(op, v, key, fault, r, inst) ==
    /\ instances' = [instances EXCEPT ![v] = inst]
    /\ methods' = r.methods
    /\ original_methods' = [original_methods EXCEPT ![v] = r.store]
    /\ last' = [op |-> op, cls |-> v, key |-> key, fault |-> fault,
                ok |-> r.ok, pre |-> Held(v)]
    /\ UNCHANGED <<lib, INSTRUMENTORS, active_instrumentors, sink, call,
                   callers, threads>>

\* the client calls instrument() on its instance of a class
InstanceInstrument ==
    /\ last.op = "none"
    /\ \E v \in Variants, fault \in Faults(lib) :
        LET r == BaseInstrument(lib, instances[v],
                                [methods |-> methods, store |-> original_methods[v]],
                                fault)
        IN  /\ Deepest(r.methods) <= MaxDepth
            /\ Direct("instrument", v, "none", fault, r, r.inst)

\* the client calls uninstrument() on its instance of a class
InstanceUninstrument ==
    /\ last.op = "none"
    /\ \E v \in Variants, fault \in Faults(lib) :
        LET r == BaseUninstrument(instances[v],
                                  [methods |-> methods, store |-> original_methods[v]],
                                  fault)
        IN  Direct("uninstrument", v, "none", fault, r, r.inst)

\* the client calls wrap_method on a patch target
WrapMethod ==
    /\ last.op = "none"
    /\ \E key \in DirectKeys :
        LET v == VariantOf(key)
            r == wrap_method(lib, key, [methods |-> methods, store |-> original_methods[v]])
        IN  /\ Deepest(r.methods) <= MaxDepth
            /\ Direct("wrap_method", v, key, NoFault, r, instances[v])

\* the client calls unwrap_method on a patch target
UnwrapMethod ==
    /\ last.op = "none"
    /\ \E key \in DirectKeys :
        LET v == VariantOf(key)
            r == unwrap_method(key, [methods |-> methods, store |-> original_methods[v]])
        IN  Direct("unwrap_method", v, key, NoFault, r, instances[v])

NextInstance ==
    InstanceInstrument \/ InstanceUninstrument \/ WrapMethod \/ UnwrapMethod \/ Forget

SpecInstance == InitDrift /\ [][NextInstance]_vars

----------------------------------------------------------------------------
(* LangChainInstrumentor._extract_model_info(instance), called by the LLM   *)
(* invoke / ainvoke wrappers on the receiver of the call.                   *)

\* the attributes tried for the model name, in the order tried
ModelAttrs == <<"model_name", "model", "model_id", "repo_id">>

\* what an attribute of the receiver holds: nothing (no such attribute), None,
\* the empty string, a model name, or an object that is not a string
AttrValues == {"missing", "None", "empty", "gpt-4", "llama-3", "object"}

\* the substrings looked for in the lower-cased class name, with the provider
\* each stands for, in the order of the elif chain
ProviderRules ==
    << [markers |-> {"openai", "gpt"},              provider |-> "openai"],
       [markers |-> {"anthropic", "claude"},        provider |-> "anthropic"],
       [markers |-> {"cohere"},                     provider |-> "cohere"],
       [markers |-> {"huggingface", "hf"},          provider |-> "huggingface"],
       [markers |-> {"google", "gemini", "palm"},   provider |-> "google"],
       [markers |-> {"bedrock"},                    provider |-> "aws_bedrock"],
       [markers |-> {"ollama"},                     provider |-> "ollama"],
       [markers |-> {"mistral"},                    provider |-> "mistral"] >>

Markers == UNION {ProviderRules[i].markers : i \in 1..Len(ProviderRules)}

\* a receiver: its attributes, and the markers its lower-cased class name
\* contains (none or one)
Receivers ==
    [attrs : [{ModelAttrs[i] : i \in 1..Len(ModelAttrs)} -> AttrValues],
     class_name : {{}} \cup {{m} : m \in Markers}]

\* hasattr(instance, attr), bool(val) and str(val)
HasAttr(instance, attr) == instance.attrs[attr] # "missing"
NonEmpty(val) == val \notin {"None", "empty"}
Str(val) == IF val = "object" THEN "<object>" ELSE val

\* a search that gives up at the first attribute that is present, whatever it
\* holds
RECURSIVE ModelNameFrom_firstpresent(_, _)
ModelNameFrom_firstpresent(instance, i) ==
    IF i > Len(ModelAttrs)
    THEN "unknown"
    ELSE IF HasAttr(instance, ModelAttrs[i])
    THEN IF NonEmpty(instance.attrs[ModelAttrs[i]])
         THEN Str(instance.attrs[ModelAttrs[i]]) ELSE "unknown"
    ELSE ModelNameFrom_firstpresent(instance, i + 1)

\* the for loop over the attributes, from the i-th on
RECURSIVE ModelNameFrom(_, _)
ModelNameFrom(instance, i) ==
    IF i > Len(ModelAttrs)
    THEN "unknown"
    ELSE IF HasAttr(instance, ModelAttrs[i]) /\ NonEmpty(instance.attrs[ModelAttrs[i]])
    THEN Str(instance.attrs[ModelAttrs[i]])
    ELSE ModelNameFrom(instance, i + 1)

\* the if / elif chain over the class name, from the i-th rule on
RECURSIVE ProviderFrom(_, _)
ProviderFrom(instance, i) ==
    IF i > Len(ProviderRules)
    THEN "langchain"
    ELSE IF instance.class_name \cap ProviderRules[i].markers # {}
    THEN ProviderRules[i].provider
    ELSE ProviderFrom(instance, i + 1)

extract_model_info(instance) ==
    [model_name |-> ModelNameFrom(instance, 1), model_provider |-> ProviderFrom(instance, 1)]

\* a LangChain LLM wrapper resolves the model of the receiver of a call
ExtractModelInfo ==
    /\ call = NoInvocation
    /\ \E instance \in Receivers :
        call' = [key |-> "langchain.BaseChatModel.invoke", instance |-> instance,
                 model_info |-> extract_model_info(instance)]
    /\ UNCHANGED <<lib, INSTRUMENTORS, active_instrumentors, methods, original_methods,
                   last, sink, concurrent>>

\* the call is over
Discard ==
    /\ call # NoInvocation
    /\ call' = NoInvocation
    /\ UNCHANGED <<lib, INSTRUMENTORS, active_instrumentors, methods, original_methods,
                   last, sink, concurrent>>

NextModelInfo == ExtractModelInfo \/ Discard

SpecModelInfo == InitFault /\ [][NextModelInfo]_vars

----------------------------------------------------------------------------
(* Properties of the lifecycle API.  `last` is the call that just returned, *)
(* last.pre the state it started from; a following call is the operation   *)
(* applied to the current state.                                            *)

\* the names in _INSTRUMENTORS
Registered == {INSTRUMENTORS[i] : i \in 1..Len(INSTRUMENTORS)}

\* framework v is in the selection (frameworks, exclude), names taken as the API
\* takes them, without regard to letter case
Targeted(v, frameworks, exclude) ==
    /\ frameworks.given => v \in LowerAll(frameworks.names)
    /\ v \notin LowerAll(exclude)

\* how many instrumentors of variant v the list holds
Count(active, v) == Cardinality({i \in 1..Len(active) : active[i].cls = v})

\* the same auto_instrument call made once more, right after the recorded one
SecondCall == auto_instrument(lib, Cur, last.frameworks, last.exclude, NoFault)

\* C1: after auto_instrument is called twice in a row with the same selection,
\* every targeted variant whose library is present was reported true by both
\* calls, is in the active set once, has every intercepted method wrapped by
\* exactly one wrapper around the true original, and has a patch store holding
\* exactly one record per intercepted method, its value the true original.
C1_Idempotent ==
    last.op = "auto_instrument" =>
        \A v \in Variants :
            (lib[v] = "present" /\ Targeted(v, last.frameworks, last.exclude)) =>
                /\ v \in DOMAIN last.results /\ last.results[v]
                /\ v \in DOMAIN SecondCall.results /\ SecondCall.results[v]
                /\ Count(SecondCall.active, v) = 1
                /\ \A k \in TargetSet(v) : SecondCall.methods[k] = wrapper_func(Original)
                /\ SecondCall.stores[v] = [k \in TargetSet(v) |-> Original]

\* a first call that installed a present variant, and a second call reporting true
C1_Witness ==
    /\ last.op = "auto_instrument"
    /\ \E v \in Variants :
        /\ lib[v] = "present" /\ Targeted(v, last.frameworks, last.exclude)
        /\ ~is_instrumented(last.pre.active, v)
        /\ last.results[v] /\ SecondCall.results[v]
        /\ Count(SecondCall.active, v) = 1

\* C2: auto_instrument that installs a variant whose library is present, followed
\* by an uninstrument that selects it, leaves every intercepted method of the
\* variant the callable it was before auto_instrument, and its patch store empty.
C2_RoundTrip ==
    last.op = "auto_instrument" =>
        \A sel \in FrameworkArgs :
            LET u == uninstrument(Cur, sel, NoFault)
            IN  \A v \in Variants :
                    ( /\ lib[v] = "present"
                      /\ Targeted(v, last.frameworks, last.exclude)
                      /\ ~is_instrumented(last.pre.active, v)
                      /\ Targeted(v, sel, {}) ) =>
                        /\ \A k \in TargetSet(v) : u.methods[k] = last.pre.methods[k]
                        /\ u.stores[v] = EmptyMap

\* an installed variant: its methods are wrappers now and uninstrument() puts
\* back what was there before the install
C2_Witness ==
    /\ last.op = "auto_instrument"
    /\ \E v \in Variants :
        /\ lib[v] = "present" /\ Targeted(v, last.frameworks, last.exclude)
        /\ ~is_instrumented(last.pre.active, v)
        /\ \A k \in TargetSet(v) : methods[k] = wrapper_func(last.pre.methods[k])
        /\ \A k \in TargetSet(v) :
              uninstrument(Cur, None, NoFault).methods[k] = last.pre.methods[k]

----------------------------------------------------------------------------
(* Properties of the call wrappers.  `call` is the invocation that just    *)
(* finished: call.orig the outcome of the true original, call.out what the *)
(* caller got, call.events what happened, in order.                        *)

\* the spans sent during the recorded invocation
Spans == SelectSeq(call.events, LAMBDA e : e.type = "span")

\* how often the true original ran / new_trace was called
Occurrences(type) == Cardinality({i \in 1..Len(call.events) : call.events[i].type = type})

\* the recorded invocation went through exactly one wrapper, with a sink
\* configured and every sink operation working
WrappedOnceHealthy ==
    /\ call # NoInvocation
    /\ methods[call.key] = wrapper_func(Original)
    /\ sink = "configured" /\ call.tel = "healthy"

\* C3 as claimed: with a sink configured, whatever error the original raises
\* (an Exception or a cancellation-style error that is not one), the caller
\* gets that same error and exactly one span is sent, with error status.
C3_ErrorTransparency ==
    (WrappedOnceHealthy /\ call.orig.kind = "raise") =>
        /\ call.out = call.orig
        /\ Len(Spans) = 1
        /\ Spans[1].status = "ERROR" /\ Spans[1].is_error = 1

\* C4: with no sink configured, an invocation of a patch target, wrapped or
\* not, gives the caller the outcome of the true original, which ran once;
\* no span is sent and new_trace is not called.
C4_PassThrough ==
    (call # NoInvocation /\ sink = "unconfigured") =>
        /\ call.out = call.orig
        /\ call.events = <<OriginalRan>>
        /\ Len(Spans) = 0
        /\ Occurrences("new_trace") = 0

C4_Witness ==
    /\ call # NoInvocation /\ sink = "unconfigured"
    /\ methods[call.key] = wrapper_func(Original)
    /\ StartsTrace(Factory(call.key))
    /\ call.tel = "raises_RuntimeError"
    /\ call.orig = Raise("CancelledError")
    /\ call.out = call.orig

\* a step of the wrapper's own logic fails in the recorded invocation: sink
\* resolution (other than not-configured), new_trace, the extraction from the
\* returned value, or send_span
StepFails ==
    \/ call.tel \in {"resolve_raises", "send_span_raises"}
    \/ call.tel = "new_trace_raises" /\ StartsTrace(Factory(call.key))
    \/ /\ call.orig.kind = "return"
       /\ ExtractionError(Factory(call.key), call.orig.value) # "none"

\* C5 as claimed: when a step of the wrapper's own logic fails, the original
\* is still invoked and the caller gets exactly the original's return value
\* or the original's error.
C5_InstrumentationFailureHarmless ==
    (/\ call # NoInvocation /\ sink = "configured"
     /\ methods[call.key] = wrapper_func(Original)
     /\ StepFails) =>
        /\ Occurrences("original") = 1
        /\ call.out = call.orig

----------------------------------------------------------------------------
(* Properties of the lifecycle API, continued.                             *)

C7_NoExcludedNoUnselected ==
    last.op = "auto_instrument" =>
        \A k \in DOMAIN last.results :
            /\ k \notin last.exclude
            /\ k \notin LowerAll(last.exclude)
            /\ last.frameworks.given => k \in LowerAll(last.frameworks.names)

\* an excluded framework that was already instrumented when the call was made
C7_Witness ==
    /\ last.op = "auto_instrument"
    /\ DOMAIN last.results # {}
    /\ \E n \in last.exclude :
        /\ is_instrumented(last.pre.active, n)
        /\ Lower(n) \notin DOMAIN last.results

\* the recorded auto_instrument call with framework a left out of its target set
WithoutTarget(a) ==
    auto_instrument(lib, last.pre, last.frameworks, last.exclude \cup {a}, NoFault)

\* C8: when auto_instrument targets a framework whose library is absent, its
\* result is false, and the results, the active set, the installed callables
\* and the patch stores of the other frameworks are those of the same call
\* without the absent framework in its target set.
C8_AbsentSkipped ==
    last.op = "auto_instrument" =>
        \A a \in Variants :
            (lib[a] = "absent" /\ Targeted(a, last.frameworks, last.exclude)) =>
                /\ a \in DOMAIN last.results /\ ~last.results[a]
                /\ DOMAIN WithoutTarget(a).results = (DOMAIN last.results) \ {a}
                /\ \A v \in (DOMAIN last.results) \ {a} :
                      WithoutTarget(a).results[v] = last.results[v]
                /\ WithoutTarget(a).active = active_instrumentors
                /\ WithoutTarget(a).methods = methods
                /\ WithoutTarget(a).stores = original_methods

\* a call that targeted an absent framework and installed a present one
C8_Witness ==
    /\ last.op = "auto_instrument"
    /\ \E a, v \in Variants :
        /\ lib[a] = "absent" /\ a \in DOMAIN last.results /\ ~last.results[a]
        /\ lib[v] = "present" /\ v \in DOMAIN last.results /\ last.results[v]
        /\ ~is_instrumented(last.pre.active, v)

\* the registered names whose result is true, in registry order
TrueInRegistryOrder(results) ==
    LET IsTrue(n) == n \in DOMAIN results /\ results[n]
    IN  SelectSeq(Registry, IsTrue)

\* the example of the specification, with openai present and anthropic excluded
C9_Example ==
    /\ lib = [v \in Variants |-> IF v = "openai" THEN "present" ELSE "absent"]
    /\ last.op = "auto_instrument"
    /\ last.pre.active = <<>>
    /\ last.frameworks = None
    /\ last.exclude = {"anthropic"}

\* C9: after auto_instrument from an empty active set,
\* get_instrumented_frameworks() is the list of the names whose result is true,
\* in registry order, and is_instrumented(n) is false for every excluded or
\* absent n; with only openai present and exclude=[anthropic] the result is
\* {openai: true, langchain: false, llamaindex: false, google: false}.
C9_QueriesAfterInstall ==
    (last.op = "auto_instrument" /\ last.pre.active = <<>>) =>
        /\ get_instrumented_frameworks(active_instrumentors)
              = TrueInRegistryOrder(last.results)
        /\ \A n \in SelNames \cup {InstName(v) : v \in Variants} :
              ( \/ Lower(n) \in LowerAll(last.exclude)
                \/ Lower(n) \notin Variants
                \/ lib[Lower(n)] = "absent" ) => ~is_instrumented(active_instrumentors, n)
        /\ C9_Example =>
              /\ last.results = ("openai" :> TRUE)
                                  @@ [v \in {"langchain", "llamaindex", "google"} |-> FALSE]
              /\ get_instrumented_frameworks(active_instrumentors) = <<"openai">>
              /\ ~is_instrumented(active_instrumentors, "anthropic")

\* the example, reached
C9_Witness ==
    /\ C9_Example
    /\ last.results["openai"]
    /\ is_instrumented(active_instrumentors, "OpenAI")

\* C10: whatever calls were made, also calls in which patch application or
\* revert raised, the active set holds at most one instrumentor per variant and
\* every instrumentor in it reports is_instrumented true.
C10_ActiveSetInvariant ==
    /\ \A i, j \in 1..Len(active_instrumentors) :
          active_instrumentors[i].cls = active_instrumentors[j].cls => i = j
    /\ \A i \in 1..Len(active_instrumentors) : active_instrumentors[i].is_instrumented

\* a variant is active after a call of it failed: a revert that raised left it
\* in the active set, or a patch run that raised was followed by a good one
C10_Witness ==
    /\ active_instrumentors # <<>>
    /\ \/ last.op = "uninstrument" /\ last.fault # NoFault
          /\ \E v \in DOMAIN last.results : ~last.results[v]
       \/ last.op = "auto_instrument" /\ last.fault = NoFault
          /\ \E k \in AllTargets : methods[k] = wrapper_func(wrapper_func(Original))

----------------------------------------------------------------------------
(* Properties of the patch state.                                          *)

\* C11: after any sequence of auto_instrument and uninstrument calls in which
\* no patch step raises, every patch target of an active variant is exactly
\* one wrapper around the true original and the variant's store holds the true
\* original for exactly those targets; every patch target of a variant that is
\* not active is the true original and the variant's store is empty.
C11_WrappedExactlyOnce ==
    \A v \in Variants :
        IF is_instrumented(active_instrumentors, v)
        THEN /\ \A k \in TargetSet(v) : methods[k] = wrapper_func(Original)
             /\ DOMAIN original_methods[v] = TargetSet(v)
             /\ \A k \in TargetSet(v) : original_methods[v][k] = Original
        ELSE /\ \A k \in TargetSet(v) : methods[k] = Original
             /\ original_methods[v] = EmptyMap

\* an uninstrument call removed one of two active variants: the removed one is
\* back to its originals, the other is still wrapped
C11_Witness ==
    /\ last.op = "uninstrument"
    /\ Len(last.pre.active) = 2 /\ Len(active_instrumentors) = 1
    /\ \E v \in Variants :
        /\ is_instrumented(last.pre.active, v)
        /\ ~is_instrumented(active_instrumentors, v)
        /\ \A k \in TargetSet(v) :
              last.pre.methods[k] = wrapper_func(Original) /\ methods[k] = Original
    /\ \E v \in Variants :
        /\ is_instrumented(active_instrumentors, v)
        /\ \A k \in TargetSet(v) : methods[k] = wrapper_func(Original)

\* the callables and the store of the class that patches `key`, as they are now
Patched(key) == [methods |-> methods, store |-> original_methods[VariantOf(key)]]

\* wrap_method applied to `key` in W; W carries on as [methods, store]
Wrapped(key, W) ==
    LET w == wrap_method(lib, key, W) IN [methods |-> w.methods, store |-> w.store]

\* C12 as claimed: when wrap_method is applied twice to the same key with the
\* same store and no unwrap_method in between, the store entry is still the
\* callable captured by the first application, and a following unwrap_method
\* reinstalls that callable, not a wrapper.
C12_SecondWrapKeepsOriginal ==
    \A key \in AllTargets :
        hasattr(lib, key) =>
            LET once  == Wrapped(key, Patched(key))
                twice == Wrapped(key, once)
            IN  /\ twice.store[key] = once.store[key]
                /\ unwrap_method(key, twice).methods[key] = methods[key]

----------------------------------------------------------------------------
(* Properties of error recovery in the lifecycle API.                      *)

\* C13 as claimed: auto_instrument and uninstrument never raise to the caller;
\* a variant whose probe fails with any error is reported false and every
\* other targeted variant is still processed and reported.
C13_NeverRaises ==
    last.op # "none" =>
        /\ ~last.raised
        /\ last.op = "auto_instrument" =>
              \A v \in Registered :
                  Targeted(v, last.frameworks, last.exclude) =>
                      /\ v \in DOMAIN last.results
                      /\ ProbeRaises(lib, v) => ~last.results[v]

\* the recorded call was an auto_instrument during which _instrument of variant
\* v ran and raised
PatchRaised(v) ==
    /\ last.op = "auto_instrument" /\ last.fault.v = v
    /\ Targeted(v, last.frameworks, last.exclude)
    /\ ~ExistingInstrumented(last.pre.active, v)

Matched ==
    {v \in Variants : /\ Count(last.pre.active, v) > 0
                      /\ Targeted(v, last.frameworks, {})}

\* C15: the map uninstrument(S) returns has exactly the active variants matching
\* S as keys (all active variants when S is not given); a matched variant whose
\* uninstall succeeded has left the active set; one whose uninstall failed maps
\* to false, is still in the active set and still reports instrumented; the
\* variants not matched stay as they were.
C15_UninstrumentResult ==
    last.op = "uninstrument" =>
        /\ ~last.raised
        /\ DOMAIN last.results = Matched
        /\ \A v \in Matched :
              IF last.results[v]
              THEN Count(active_instrumentors, v) = 0
              ELSE /\ Count(active_instrumentors, v) = 1
                   /\ is_instrumented(active_instrumentors, v)
        /\ \A v \in Variants \ Matched :
              Count(active_instrumentors, v) = Count(last.pre.active, v)

\* the revert of a matched variant raised part-way
C15_Witness ==
    /\ last.op = "uninstrument" /\ last.frameworks.given
    /\ \E v \in Matched :
        /\ ~last.results[v] /\ last.fault.v = v /\ last.fault.at >= 1
        /\ is_instrumented(active_instrumentors, v)

----------------------------------------------------------------------------
(* Properties of the queries.                                              *)

\* the names a query is made with: registry keys, the display names of the
\* instrumentor classes (mixed case) and an unregistered name
QueryNames == Variants \cup {InstName(v) : v \in Variants} \cup {"crewai"}

\* the elements of a list
Elements(seq) == {seq[i] : i \in 1..Len(seq)}

\* C16: in every state and for every name n, in any letter case,
\* is_instrumented(n) is true exactly when n lower-cased is listed by
\* get_instrumented_frameworks(); it is false for a name never instrumented
\* and for a name whose uninstrument succeeded.
C16_QueriesAgree ==
    /\ \A n \in QueryNames :
          is_instrumented(active_instrumentors, n)
              <=> Lower(n) \in Elements(get_instrumented_frameworks(active_instrumentors))
    /\ active_instrumentors = <<>> /\ INSTRUMENTORS = <<>> =>
          \A n \in QueryNames : ~is_instrumented(active_instrumentors, n)
    /\ last.op = "uninstrument" =>
          \A v \in DOMAIN last.results :
              last.results[v] =>
                  /\ ~is_instrumented(active_instrumentors, v)
                  /\ ~is_instrumented(active_instrumentors, InstName(v))

\* one variant was uninstrumented and answers false, another is still
\* instrumented and answers true under its mixed-case name
C16_Witness ==
    /\ last.op = "uninstrument"
    /\ \E v, w \in Variants :
        /\ v \in DOMAIN last.results /\ last.results[v]
        /\ is_instrumented(last.pre.active, InstName(v))
        /\ ~is_instrumented(active_instrumentors, InstName(v))
        /\ is_instrumented(active_instrumentors, InstName(w))
        /\ w \in Elements(get_instrumented_frameworks(active_instrumentors))

----------------------------------------------------------------------------
(* Properties of the spans of an invocation.                               *)

\* the positions in the recorded invocation's events of the events of a type
Positions(type) == {i \in 1..Len(call.events) : call.events[i].type = type}

\* the recorded invocation was made with a sink configured and working, on a
\* patch target of a variant that reports instrumented
InstrumentedHealthy ==
    /\ call # NoInvocation
    /\ sink = "configured" /\ call.tel = "healthy"
    /\ is_instrumented(active_instrumentors, VariantOf(call.key))

\* C17 as claimed: with a sink configured and the variant instrumented through
\* any sequence of auto_instrument / uninstrument calls, an invocation sends
\* exactly one span on every exit path (return, error, cancellation), after the
\* original has finished and as the last thing before the caller gets the
\* outcome.
C17_OneSpanPerInvocation ==
    InstrumentedHealthy =>
        /\ Len(Spans) = 1
        /\ Occurrences("original") = 1
        /\ \A i \in Positions("original"), j \in Positions("span") : i < j
        /\ call.events[Len(call.events)].type = "span"

----------------------------------------------------------------------------
(* Properties of concurrent use.                                           *)

\* the spans caller c's invocation has sent
SpansOf(c) == SelectSeq(callers[c].events, LAMBDA e : e.type = "span")

\* C18 as claimed: when several callers are in the same installed wrapper at
\* the same time, then however their steps interleave, each invocation sends
\* exactly one span, whose error status, type and message are those of that
\* invocation's own outcome, and each caller gets its own original's outcome.
C18_ConcurrentCallersIsolated ==
    \A c \in Callers :
        (callers[c].pc = "done" /\ callers[c].tel = "healthy") =>
            LET f == callers[c] IN
            /\ f.out = f.orig
            /\ Len(SpansOf(c)) = 1
            /\ IF f.orig.kind = "raise"
               THEN /\ SpansOf(c)[1].status = "ERROR"
                    /\ SpansOf(c)[1].error_type = f.orig.value
                    /\ SpansOf(c)[1].error_message = f.orig.value
               ELSE /\ SpansOf(c)[1].status = "unset"
                    /\ SpansOf(c)[1].error_type = "none"
                    /\ SpansOf(c)[1].error_message = "none"

\* the state uninstrument() leads to from the current one
AfterUninstrument == uninstrument(Cur, None, NoFault)

\* C19: two auto_instrument calls that run at the same time for the same
\* variant can both apply its patches; then the store entry of every patch
\* target of the variant is a wrapper, not the true original, and uninstrument
\* removes both instrumentors but leaves a wrapper installed.
C19_RaceLosesOriginal ==
    \A v \in Variants :
        Count(active_instrumentors, v) >= 2 =>
            \A k \in TargetSet(v) :
                /\ k \in DOMAIN original_methods[v]
                /\ original_methods[v][k] # Original
                /\ methods[k] = wrapper_func(original_methods[v][k])
                /\ AfterUninstrument.methods[k] # Original
                /\ Count(AfterUninstrument.active, v) = 0

\* both calls have returned after each applied the patches: every target is a
\* wrapper around a wrapper, the store holds the inner wrapper, and uninstrument
\* would put that wrapper back
C19_Witness ==
    /\ \A t \in Threads : threads[t].pc = "idle"
    /\ \E v \in Variants :
        /\ Count(active_instrumentors, v) = 2
        /\ \A k \in TargetSet(v) :
            /\ methods[k] = wrapper_func(wrapper_func(Original))
            /\ original_methods[v][k] = wrapper_func(Original)
            /\ AfterUninstrument.methods[k] = wrapper_func(Original)

\* the chain, agent and query entry points
TraceEntryPoints ==
    {"langchain.RunnableSequence.invoke", "langchain.AgentExecutor.invoke",
     "llamaindex.BaseQueryEngine.query", "llamaindex.BaseQueryEngine.aquery"}

\* C20: with a sink configured, an invocation of a chain, agent or query entry
\* point calls new_trace exactly once, before the original is invoked and
\* before the invocation's span is sent; an invocation of an LLM, embedding,
\* retriever or tool entry point never calls new_trace.
C20_NewTraceOncePerEntryPoint ==
    WrappedOnceHealthy =>
        IF call.key \in TraceEntryPoints
        THEN /\ Occurrences("new_trace") = 1
             /\ \A i \in Positions("new_trace"), j \in Positions("original") : i < j
             /\ \A i \in Positions("new_trace"), j \in Positions("span") : i < j
        ELSE /\ SpanType(Factory(call.key)) \in {"LLM", "EMBEDDING", "RETRIEVER", "TOOL"}
             /\ Occurrences("new_trace") = 0

\* an asynchronous query whose original raised: new_trace, the original, the span
C20_Witness ==
    /\ WrappedOnceHealthy
    /\ call.key = "llamaindex.BaseQueryEngine.aquery"
    /\ call.orig = Raise("ValueError")
    /\ Len(call.events) = 3
    /\ call.events[1] = NewTrace /\ call.events[2] = OriginalRan
    /\ call.events[3].type = "span" /\ call.events[3].span_type = "CHAIN"

\* the error fields of a span are those of the error e, or all absent for "none"
ErrorFields(s, e) ==
    /\ s.status = (IF e = "none" THEN "unset" ELSE "ERROR")
    /\ s.is_error = (IF e = "none" THEN 0 ELSE 1)
    /\ s.error_type = e
    /\ s.error_message = e

\* C21 as claimed: for every wrapper kind in every variant, the span of a call
\* whose original raised carries error status together with the error's type
\* name and its message, and the span of a call that returned normally carries
\* none of the error fields.
C21_ErrorFieldsComplete ==
    WrappedOnceHealthy =>
        \A i \in 1..Len(Spans) :
            ErrorFields(Spans[i], IF call.orig.kind = "raise"
                                  THEN call.orig.value ELSE "none")

----------------------------------------------------------------------------
(* Properties of direct use.  `last` is the direct call that just returned, *)
(* last.pre what it read: the instance, the callables and the class's store. *)

\* the direct call left the instance, every callable and the store as they were
LeftUnchanged ==
    /\ instances[last.cls] = last.pre.inst
    /\ methods = last.pre.methods
    /\ original_methods[last.cls] = last.pre.store

\* C22: instrument() on a variant whose library is absent returns False and
\* leaves the instrumented flag, the patch store and every target method
\* unchanged; instrument() on an already instrumented variant returns True
\* without applying any patch again.
C22_InstrumentNoOps ==
    last.op = "instrument" =>
        /\ lib[last.cls] = "absent" => ~last.ok /\ LeftUnchanged
        /\ last.pre.inst.is_instrumented => last.ok /\ LeftUnchanged

\* instrument() returned True on an instance that was instrumented, with its
\* targets wrapped once
C22_Witness ==
    /\ last.op = "instrument"
    /\ last.pre.inst.is_instrumented
    /\ last.ok
    /\ \A k \in TargetSet(last.cls) : methods[k] = wrapper_func(Original)

\* the revert of the recorded uninstrument() call raised part-way
RevertRaised ==
    RevertPatches(last.cls, 1, [methods |-> last.pre.methods, store |-> last.pre.store],
                  FailAt(last.fault, last.cls)).raised

\* every target of the recorded call's variant that had an entry in the store
\* has the stored callable back, and the store is empty
Reverted ==
    /\ \A k \in TargetSet(last.cls) :
          methods[k] = IF k \in DOMAIN last.pre.store
                       THEN last.pre.store[k] ELSE last.pre.methods[k]
    /\ original_methods[last.cls] = EmptyMap

\* C23: uninstrument() on a variant that is not instrumented returns True and
\* changes nothing; on an instrumented variant it runs the revert and clears
\* the flag only when the revert completes without raising; when the revert
\* raises it returns False, raises nothing, and the flag stays set.
C23_UninstrumentInstance ==
    last.op = "uninstrument" =>
        IF ~last.pre.inst.is_instrumented
        THEN last.ok /\ LeftUnchanged
        ELSE IF RevertRaised
        THEN ~last.ok /\ instances[last.cls].is_instrumented
        ELSE last.ok /\ ~instances[last.cls].is_instrumented /\ Reverted

\* uninstrument() on an instrumented instance whose revert raised after it had
\* restored some targets
C23_Witness ==
    /\ last.op = "uninstrument"
    /\ last.pre.inst.is_instrumented
    /\ RevertRaised
    /\ ~last.ok
    /\ instances[last.cls].is_instrumented
    /\ methods # last.pre.methods

\* C24 as claimed: wrap_method for a key that already has an entry in the patch
\* store is a no-op on the target: the method is not wrapped a second time and
\* the store is unchanged.
C24_RewrapIsNoOp ==
    (last.op = "wrap_method" /\ last.key \in DOMAIN last.pre.store) =>
        /\ methods = last.pre.methods
        /\ original_methods[last.cls] = last.pre.store

\* the callables other than the one at `key`, and the entries of the store
\* other than the one of `key`, are those before the recorded call
OthersUnchanged(key) ==
    /\ \A k \in AllTargets \ {key} : methods[k] = last.pre.methods[k]
    /\ \A k \in (DOMAIN last.pre.store) \ {key} :
          k \in DOMAIN original_methods[last.cls]
          /\ original_methods[last.cls][k] = last.pre.store[k]
    /\ DOMAIN original_methods[last.cls] \subseteq (DOMAIN last.pre.store) \cup {key}

\* C25: wrap_method on an object that lacks the named method returns False and
\* leaves the object and the patch store unchanged; when the method exists it
\* returns True, the object's method becomes the wrapper built from the
\* captured callable, and the store maps the key to the captured callable.
C25_WrapMethod ==
    last.op = "wrap_method" =>
        IF ~hasattr(lib, last.key)
        THEN ~last.ok /\ LeftUnchanged
        ELSE /\ last.ok
             /\ methods[last.key] = wrapper_func(last.pre.methods[last.key])
             /\ last.key \in DOMAIN original_methods[last.cls]
             /\ original_methods[last.cls][last.key] = last.pre.methods[last.key]
             /\ OthersUnchanged(last.key)

\* wrap_method returned True on a method that was the original, with nothing
\* in the store
C25_Witness ==
    /\ last.op = "wrap_method"
    /\ hasattr(lib, last.key)
    /\ last.pre.store = EmptyMap
    /\ last.pre.methods[last.key] = Original
    /\ last.ok
    /\ methods[last.key] = wrapper_func(Original)
    /\ original_methods[last.cls][last.key] = Original

\* unwrap_method on the recorded key, applied to the current state
UnwrapAgain ==
    unwrap_method(last.key, [methods |-> methods, store |-> original_methods[last.cls]])

\* C26: unwrap_method with an entry present for the key reinstalls the stored
\* callable on the object, removes the entry and returns True; with no entry
\* for the key (also on a second unwrap_method right after a successful one) it
\* returns False and leaves the object and the store unchanged.
C26_UnwrapMethod ==
    last.op = "unwrap_method" =>
        IF last.key \in DOMAIN last.pre.store
        THEN /\ last.ok
             /\ methods[last.key] = last.pre.store[last.key]
             /\ last.key \notin DOMAIN original_methods[last.cls]
             /\ OthersUnchanged(last.key)
             /\ ~UnwrapAgain.ok
             /\ UnwrapAgain.methods = methods
             /\ UnwrapAgain.store = original_methods[last.cls]
        ELSE ~last.ok /\ LeftUnchanged

\* unwrap_method put the original back in place of a wrapper and removed the
\* entry
C26_Witness ==
    /\ last.op = "unwrap_method"
    /\ last.key \in DOMAIN last.pre.store
    /\ last.pre.methods[last.key] = wrapper_func(Original)
    /\ last.ok
    /\ methods[last.key] = Original
    /\ last.key \notin DOMAIN original_methods[last.cls]

----------------------------------------------------------------------------
(* Properties of registration.                                             *)

\* C27: when registering one variant fails, the other variants are still
\* entered in the catalog and can be instrumented by the same auto_instrument
\* call; once the catalog has been populated, later auto_instrument calls
\* leave it unchanged.
C27_RegistrationIndependent ==
    last.op = "auto_instrument" =>
        /\ ~last.raised
        /\ Registered = {v \in Variants : lib[v] # "nomodule"}
        /\ \A v \in Registered :
              (Targeted(v, last.frameworks, last.exclude) /\ lib[v] = "present") =>
                  /\ v \in DOMAIN last.results /\ last.results[v]
                  /\ is_instrumented(active_instrumentors, v)
                  /\ \A k \in TargetSet(v) : methods[k] # Original
        /\ last.pre.reg # <<>> => INSTRUMENTORS = last.pre.reg

\* the first auto_instrument call met an instrumentor module that failed to
\* import and instrumented a variant registered after it
C27_Witness ==
    /\ last.op = "auto_instrument"
    /\ last.pre.reg = <<>>
    /\ \E i, j \in 1..Len(Registry) :
          /\ i < j
          /\ lib[Registry[i]] = "nomodule"
          /\ Registry[j] \in DOMAIN last.results /\ last.results[Registry[j]]
          /\ is_instrumented(active_instrumentors, Registry[j])

----------------------------------------------------------------------------
(* Properties of a library whose shape differs from the expected one.      *)

\* none of variant v's entry points can be patched: the library imports, and
\* no scope has the method the instrumentor looks for
NothingPatchable(v) == lib[v] = "drifted" /\ \A k \in TargetSet(v) : ~hasattr(lib, k)

\* C28 as claimed: when a variant's library is present but its shape differs so
\* that none of the variant's entry points can be patched, auto_instrument
\* reports False for that variant and does not add it to the active set.
C28_ShapeMismatchReportedFalse ==
    last.op = "auto_instrument" =>
        \A v \in Registered :
            (NothingPatchable(v) /\ Targeted(v, last.frameworks, last.exclude)) =>
                /\ v \in DOMAIN last.results /\ ~last.results[v]
                /\ Count(active_instrumentors, v) = 0

----------------------------------------------------------------------------
(* Properties of the retrieval wrappers.                                   *)

\* the recorded invocation went through one retrieval wrapper with a working sink
RetrieverCall == WrappedOnceHealthy /\ SpanType(Factory(call.key)) = "RETRIEVER"

\* C29 as claimed: for the LangChain and the LlamaIndex retrieval wrappers the
\* span's documents_retrieved is the length of the returned value when that is
\* a list and 0 in every other case (the call raised, returned nothing, or
\* returned a value that is not a list), and computing it never raises.
C29_DocumentsRetrieved ==
    RetrieverCall =>
        /\ call.out = call.orig
        /\ Len(Spans) = 1
        /\ Spans[1].documents_retrieved =
              IF call.orig.kind = "return" /\ IsList(call.orig.value)
              THEN Length(call.orig.value) ELSE 0

----------------------------------------------------------------------------
(* Properties of the model-name resolution.                                *)

\* the places in ModelAttrs of the attributes that the receiver of the
\* recorded call has and that are not empty
Eligible ==
    {i \in 1..Len(ModelAttrs) :
        /\ call.instance.attrs[ModelAttrs[i]] # "missing"
        /\ call.instance.attrs[ModelAttrs[i]] \notin {"None", "empty"}}

\* C30: the LangChain model-name resolution returns the value (as a string) of
\* the first attribute among model_name, model, model_id, repo_id, in that
\* order, that is present on the receiver and non-empty, and "unknown" when
\* none is; an earlier attribute that is present but empty does not stop the
\* search.
C30_FirstNonEmptyAttribute ==
    "model_info" \in DOMAIN call =>
        /\ ModelAttrs = <<"model_name", "model", "model_id", "repo_id">>
        /\ IF Eligible = {}
           THEN call.model_info.model_name = "unknown"
           ELSE \E i \in Eligible :
                   /\ \A j \in Eligible : i <= j
                   /\ call.model_info.model_name = Str(call.instance.attrs[ModelAttrs[i]])

\* model_name is present and empty, model is None, and the name comes from
\* model_id although repo_id holds another one
C30_Witness ==
    /\ "model_info" \in DOMAIN call
    /\ call.instance.attrs["model_name"] = "empty"
    /\ call.instance.attrs["model"] = "None"
    /\ call.instance.attrs["model_id"] = "llama-3"
    /\ call.instance.attrs["repo_id"] = "gpt-4"
    /\ call.model_info.model_name = "llama-3"

----------------------------------------------------------------------------
(* Properties of the asynchronous wrappers.                                *)

\* caller c is suspended in an asynchronous wrapper, awaiting the original
Suspended(c) == callers[c].pc = "calling" /\ callers[c].key \in AsyncTargets

\* caller d can take its next step
CanProceed(d) ==
    CASE callers[d].pc = "idle"    -> ENABLED Enter(d)
      [] callers[d].pc = "resolve" -> ENABLED Resolve(d)
      [] callers[d].pc = "calling" -> ENABLED OriginalCompletes(d)
      [] callers[d].pc = "finally" -> ENABLED Finally(d)
      [] callers[d].pc = "done"    -> ENABLED Leave(d)

\* C31: for asynchronous entry points the span is emitted only after the
\* awaited original has completed, and while one invocation is suspended
\* awaiting the original, another invocation of the same wrapped method can
\* start, complete and emit its own span.
C31_AsyncNoLock ==
    \A c \in Callers :
        /\ callers[c].key \in AsyncTargets =>
              \A j \in 1..Len(callers[c].events) :
                  callers[c].events[j].type = "span" =>
                      \E i \in 1..(j - 1) : callers[c].events[i] = OriginalRan
        /\ Suspended(c) => \A d \in Callers \ {c} : CanProceed(d)

\* one caller is still awaiting the original of an asynchronous target while
\* another, in the same wrapper, has run to the end and sent its span
C31_Witness ==
    \E c, d \in Callers :
        /\ Suspended(c)
        /\ callers[c].telemetry = "telemetry"
        /\ callers[d].pc = "done"
        /\ callers[d].key = callers[c].key
        /\ Len(SpansOf(d)) = 1
        /\ callers[d].out = callers[d].orig

----------------------------------------------------------------------------
(* Properties of the sink resolution.                                      *)

\* the recorded invocation went through one wrapper
WrappedOnce == call # NoInvocation /\ methods[call.key] = wrapper_func(Original)

\* C32: the sink is resolved at each invocation, not at install time: a method
\* instrumented while no sink is configured passes calls straight through, and
\* once a sink is configured, invocations of the same wrapper send spans
\* without the method being instrumented again.
C32_SinkResolvedPerInvocation ==
    WrappedOnce =>
        IF sink = "unconfigured"
        THEN call.out = call.orig /\ call.events = <<OriginalRan>>
        ELSE (call.tel = "healthy" /\ ~StepFails) =>
                 /\ call.out = call.orig
                 /\ Len(Spans) = 1
                 /\ call.events[Len(call.events)] = Spans[1]

\* a wrapper installed before setup_telemetry sends a span for a call made
\* after it
C32_Witness ==
    /\ WrappedOnce
    /\ sink = "configured" /\ call.tel = "healthy"
    /\ call.key = "anthropic.Messages.create"
    /\ call.orig = Return("object")
    /\ call.events = <<OriginalRan, SpanKwargs("anthropic.messages", "none", "object")>>

----------------------------------------------------------------------------
(* Properties of the call to the original.                                 *)

\* the recorded invocation got as far as its call of the original: resolving
\* the sink gave a sink or none, and new_trace, where the wrapper calls it,
\* returned
ReachesOriginal ==
    /\ call.tel # "resolve_raises"
    /\ ~(call.tel = "new_trace_raises" /\ StartsTrace(Factory(call.key)))

\* C33: every wrapper invokes the original callable exactly once per
\* invocation, never zero times and never twice, with the caller's positional
\* and keyword arguments unchanged, whether or not a sink is configured and
\* whether the original returns or raises.
C33_OriginalCalledOnce ==
    (call # NoInvocation /\ methods[call.key] # Original /\ ReachesOriginal) =>
        /\ Occurrences("original") = 1
        /\ call.received = call.arguments

\* a wrapper declared with self_instance, with a sink configured, passed the
\* receiver, the input and the keyword on to an original that raised
C33_Witness ==
    /\ call # NoInvocation
    /\ methods[call.key] = wrapper_func(Original)
    /\ sink = "configured" /\ call.tel = "healthy"
    /\ TakesReceiver(Factory(call.key))
    /\ call.orig = Raise("ValueError")
    /\ call.arguments = [positional |-> <<"self", "input">>, keywords |-> [model |-> "gpt-4"]]
    /\ call.received = call.arguments
    /\ Occurrences("original") = 1

----------------------------------------------------------------------------
(* Properties of a selective uninstrument.                                 *)

\* the instrumentor is not named, in any letter case, by the recorded call
NotNamed(inst) == Lower(InstName(inst.cls)) \notin LowerAll(last.frameworks.names)

\* the targets and the patch store of variant v are as they were before the
\* recorded call
Untouched(v) ==
    /\ \A k \in TargetSet(v) : methods[k] = last.pre.methods[k]
    /\ original_methods[v] = last.pre.stores[v]

\* C34: uninstrument(frameworks=S) leaves every active variant whose name is
\* not in S in the active set, still instrumented, with its patched methods
\* and patch store unchanged, and preserves the relative order of the variants
\* that remain; an S that names no active variant changes nothing and yields
\* an empty result map.
C34_UninstrumentSelective ==
    (last.op = "uninstrument" /\ last.frameworks.given) =>
        /\ SelectSeq(active_instrumentors, NotNamed) = SelectSeq(last.pre.active, NotNamed)
        /\ \A i \in DOMAIN last.pre.active :
              NotNamed(last.pre.active[i]) =>
                  /\ last.pre.active[i].is_instrumented
                  /\ Untouched(last.pre.active[i].cls)
        /\ (\A i \in DOMAIN last.pre.active : NotNamed(last.pre.active[i])) =>
              /\ Cur = last.pre
              /\ last.results = EmptyMap

\* three variants were active and the call named the second one: the first and
\* the third remain, in that order, wrapped as before
C34_Witness ==
    /\ last.op = "uninstrument" /\ last.frameworks.given
    /\ Len(last.pre.active) = 3
    /\ ~NotNamed(last.pre.active[2])
    /\ active_instrumentors = <<last.pre.active[1], last.pre.active[3]>>
    /\ \A i \in {1, 3} : /\ Untouched(last.pre.active[i].cls)
                         /\ \A k \in TargetSet(last.pre.active[i].cls) : methods[k] # Original
    /\ DOMAIN last.results = {Lower(InstName(last.pre.active[2].cls))}

----------------------------------------------------------------------------
(* Properties of a variant that is not reported as instrumented.           *)

\* C35: in every reachable state, including after a patch application that
\* raised part-way through, a variant that is not reported as instrumented has
\* none of its target methods wrapped and an empty patch store, so that a later
\* successful auto_instrument wraps the true originals exactly once.
C35_NotInstrumentedIsClean ==
    \A v \in Variants :
        ~is_instrumented(active_instrumentors, v) =>
            /\ \A k \in TargetSet(v) : methods[k] = Original
            /\ original_methods[v] = EmptyMap
            /\ LET r == auto_instrument(lib, Cur, Some({v}), {}, NoFault)
               IN  (v \in DOMAIN r.results /\ r.results[v]) =>
                       \A k \in TargetSet(v) :
                           hasattr(lib, k) => r.methods[k] = wrapper_func(Original)

----------------------------------------------------------------------------
(* Properties of an uninstrument after a revert that raised.               *)

\* the recorded uninstrument call ran the revert of variant v and it raised
RevertFailed(v) ==
    /\ last.op = "uninstrument"
    /\ v \in DOMAIN last.results
    /\ ~last.results[v]

\* before the recorded call every target of variant v was one wrapper around
\* the true original, which the patch store held
InstalledOnce(v) ==
    /\ DOMAIN last.pre.stores[v] = TargetSet(v)
    /\ \A k \in TargetSet(v) : /\ last.pre.methods[k] = wrapper_func(Original)
                               /\ last.pre.stores[v][k] = Original

\* C36: if the revert raises part-way through during uninstrument, the variant
\* stays in the active set; a later uninstrument call whose revert completes
\* restores every still-wrapped method to its true original, leaves the
\* already-restored methods untouched, empties the patch store and removes the
\* variant from the active set.  The still-wrapped methods are those with an
\* entry in the patch store; the entry is the true original when the variant
\* was installed by one completed patch application.
C36_RevertRetried ==
    \A v \in Variants :
        RevertFailed(v) =>
            /\ Count(active_instrumentors, v) = 1
            /\ is_instrumented(active_instrumentors, v)
            /\ \A sel \in FrameworkArgs :
                  Targeted(v, sel, {}) =>
                      LET u == uninstrument(Cur, sel, NoFault)
                      IN  /\ u.results[v]
                          /\ \A k \in TargetSet(v) :
                                u.methods[k] = IF k \in DOMAIN original_methods[v]
                                               THEN original_methods[v][k]
                                               ELSE methods[k]
                          /\ InstalledOnce(v) =>
                                \A k \in TargetSet(v) : u.methods[k] = Original
                          /\ u.stores[v] = EmptyMap
                          /\ Count(u.active, v) = 0

\* an uninstrument call whose revert completed, on a variant that a revert that
\* raised had left with some targets restored and the others still wrapped
C36_Witness ==
    /\ last.op = "uninstrument" /\ last.fault = NoFault
    /\ \E v \in Variants :
        /\ Count(last.pre.active, v) = 1
        /\ \E k \in TargetSet(v) : /\ last.pre.methods[k] = Original
                                   /\ k \notin DOMAIN last.pre.stores[v]
        /\ \E k \in TargetSet(v) : /\ last.pre.methods[k] = wrapper_func(Original)
                                   /\ k \in DOMAIN last.pre.stores[v]
                                   /\ last.pre.stores[v][k] = Original
        /\ v \in DOMAIN last.results /\ last.results[v]
        /\ \A k \in TargetSet(v) : methods[k] = Original
        /\ original_methods[v] = EmptyMap
        /\ Count(active_instrumentors, v) = 0

----------------------------------------------------------------------------
(* Properties of the letter case of framework names.                       *)

\* the frameworks argument with every name in lower case
LowerCased(frameworks) ==
    IF frameworks.given THEN Some(LowerAll(frameworks.names)) ELSE None

\* the recorded call, made from the same state with every name in lower case
InLowerCase ==
    IF last.op = "auto_instrument"
    THEN auto_instrument(lib, last.pre, LowerCased(last.frameworks),
                         LowerAll(last.exclude), last.fault)
    ELSE uninstrument(last.pre, LowerCased(last.frameworks), last.fault)

\* C37: auto_instrument and uninstrument treat framework names
\* case-insensitively: selecting or excluding a name in any letter case has the
\* same effect as its lower-case form, and the keys of both result maps are
\* always the lower-case registry names.
C37_NamesCaseInsensitive ==
    last.op \in {"auto_instrument", "uninstrument"} =>
        /\ last.results = InLowerCase.results
        /\ active_instrumentors = InLowerCase.active
        /\ methods = InLowerCase.methods
        /\ original_methods = InLowerCase.stores
        /\ DOMAIN last.results \subseteq Registered
        /\ \A k \in DOMAIN last.results : Lower(k) = k

\* a call that spelled a name with capitals acted on the variant registered in
\* lower case: OpenAI selected and installed, excluded while the others were
\* installed, or selected and removed
C37_Witness ==
    /\ last.op \in {"auto_instrument", "uninstrument"}
    /\ \/ /\ "OpenAI" \in last.frameworks.names
          /\ DOMAIN last.results = {"openai"}
          /\ last.results["openai"]
          /\ is_instrumented(active_instrumentors, "openai")
                 # is_instrumented(last.pre.active, "openai")
       \/ /\ "OpenAI" \in last.exclude
          /\ lib["openai"] = "present"
          /\ "openai" \notin DOMAIN last.results
          /\ last.results # EmptyMap

----------------------------------------------------------------------------
(* Properties of auto_instrument on variants that are already active.      *)

\* C38: auto_instrument never uninstalls anything: a variant that is already
\* active stays in the active set with its patches and patch store unchanged
\* when it is listed in exclude or left out of frameworks, and it does not
\* appear in that call's result map.
C38_AutoInstrumentNeverUninstalls ==
    last.op = "auto_instrument" =>
        /\ \A i \in DOMAIN last.pre.active :
              /\ i \in DOMAIN active_instrumentors
              /\ active_instrumentors[i] = last.pre.active[i]
        /\ \A v \in Variants :
              (Count(last.pre.active, v) > 0 /\ ~Targeted(v, last.frameworks, last.exclude)) =>
                  /\ is_instrumented(active_instrumentors, v)
                  /\ \A k \in TargetSet(v) : methods[k] = last.pre.methods[k]
                  /\ original_methods[v] = last.pre.stores[v]
                  /\ v \notin DOMAIN last.results

\* openai was active and a call that excluded it, or selected another
\* framework, installed another variant and left openai wrapped as it was
C38_Witness ==
    /\ last.op = "auto_instrument"
    /\ Count(last.pre.active, "openai") = 1
    /\ ~Targeted("openai", last.frameworks, last.exclude)
    /\ Len(active_instrumentors) > Len(last.pre.active)
    /\ active_instrumentors[1] = last.pre.active[1]
    /\ \A k \in TargetSet("openai") : methods[k] = wrapper_func(Original)
    /\ "openai" \notin DOMAIN last.results

====
